---- MODULE Spec2Model ----
(***************************************************************************)
(* Model of the bauzeichnung-aufmass-tool:                                 *)
(*   - QuantityCalculator.calculate and its per-kind formulas              *)
(*     (src/src/quantity_calculator/calculator.py),                        *)
(*   - QuantityResult as the plain two-field record the code declares,     *)
(*   - ElementDetector.parse_scale and the detectors' _parse_scale,        *)
(*     the classification steps of WallDetector, OpeningDetector and       *)
(*     StructuralDetector on what their scans find, and the filters of     *)
(*     ElementDetector (src/src/element_detector/*.py),                    *)
(*   - ImagePreprocessor.binarize and the detectors' binarization          *)
(*     (src/src/image_processor/preprocessor.py),                          *)
(*   - BauzeichnungAnalyzer.analyze and analyze_image (src/src/main.py),   *)
(*   - BoundingBox.center and area, Exporter.export_to_json                *)
(*     (src/src/export/exporter.py),                                       *)
(*   - the scans of the detectors on the pixels of small bitmaps: the      *)
(*     flood fills of _find_filled_rectangles and _find_wall_gaps and the  *)
(*     line scanner with _measure_line_thickness,                          *)
(*   - AnalysisResult.calculate_quantities, get_summary and export_to_*.   *)
(*                                                                         *)
(* Real numbers are exact fractions; Python's round(x, k) and the ":.kf"   *)
(* format are round-half-to-even on the exact value.  A binary float that  *)
(* stands for an exact decimal tie may round to the other side: of the     *)
(* sample inputs only the column without dimensions at wall height 2.75    *)
(* (volume 0.2475) meets such a tie, in its volume_m3 snapshot and in the  *)
(* "Stützen" total of two such columns.                                    *)
(***************************************************************************)
EXTENDS Integers, Sequences, FiniteSets, TLC

----------------------------------------------------------------------------
(* Bounds of the model                                                     *)

\* longest element list handed to calculate
MaxElems == 3
\* longest element list in the runs that also change result.items
MaxEditElems == 2
\* number of direct changes a caller makes to result.items between two calls
MaxEdits == 2
\* longest scale string
MaxScaleLen == 5

\* the most findings (runs, components) on one image
MaxFound == 2
\* the most pixels of a raster handed to the binarizer
MaxPixels == 2
\* the most pages of a PDF handed to analyze
MaxPages == 2

----------------------------------------------------------------------------
(* Exact arithmetic                                                        *)
(* A number is a fraction <<n, d>> with d > 0, not necessarily in lowest   *)
(* terms; Eq compares values.  A decimal literal has a power of ten as d.  *)

Abs(a) == IF a < 0 THEN -a ELSE a

RECURSIVE GCD(_, _)
GCD(a, b) == IF b = 0 THEN a ELSE GCD(b, a % b)

\* n/d (d # 0) in lowest terms with a positive denominator
Rat(n, d) ==
    LET g == GCD(Abs(n), Abs(d))
        s == IF d < 0 THEN -1 ELSE 1
    IN  <<(s * n) \div g, (s * d) \div g>>

RECURSIVE Pow10(_)
Pow10(e) == CASE e = 0 -> 1 [] e = 1 -> 10 [] e = 2 -> 100 [] e = 3 -> 1000
              [] OTHER -> 10 * Pow10(e - 1)

\* the decimal literal v * 10^-e
Dec(v, e) == <<v, Pow10(e)>>

Zero == <<0, 1>>
One == <<1, 1>>

Eq(a, b) ==
    IF a[2] = b[2] THEN a[1] = b[1]
    ELSE IF a[2] % b[2] = 0 THEN a[1] = b[1] * (a[2] \div b[2])
    ELSE IF b[2] % a[2] = 0 THEN a[1] * (b[2] \div a[2]) = b[1]
    ELSE a[1] * b[2] = b[1] * a[2]

RAdd(a, b) ==
    IF a[2] = b[2] THEN <<a[1] + b[1], a[2]>>
    ELSE IF a[2] % b[2] = 0 THEN <<a[1] + b[1] * (a[2] \div b[2]), a[2]>>
    ELSE IF b[2] % a[2] = 0 THEN <<a[1] * (b[2] \div a[2]) + b[1], b[2]>>
    ELSE <<a[1] * b[2] + b[1] * a[2], a[2] * b[2]>>

RMul(a, b) == <<a[1] * b[1], a[2] * b[2]>>

\* Python round(x, k): the nearest multiple of 10^-k, ties to the even one,
\* as <<q, 10^k>>
Round(x, k) ==
    LET s   == Pow10(k)
        num == IF x[2] % s = 0 THEN x[1] ELSE x[1] * s
        den == IF x[2] % s = 0 THEN x[2] \div s ELSE x[2]
        q   == num \div den
        r   == num % den
        up  == \/ 2 * r > den
               \/ 2 * r = den /\ q % 2 # 0
    IN  <<IF up THEN q + 1 ELSE q, s>>

-----
(* Python dict access                                                      *)

EmptyDict == [k \in {} |-> Zero]

\* d.get(k, default)
Get(d, k, default) == IF k \in DOMAIN d THEN d[k] ELSE default

----------------------------------------------------------------------------
(* State                                                                   *)

VARIABLES
    default_wall_height,     \* QuantityCalculator.default_wall_height
    default_slab_thickness,  \* QuantityCalculator.default_slab_thickness
    elements,                \* the element list the caller hands to calculate
    result,                  \* the QuantityResult the caller holds (last returned)
    origin,                  \* ghost: origin[k] = index in elements of the element
                             \*        result.items[k] was computed from
    returned,                \* ghost: the results calculate has returned so far
    calls,                   \* number of calculate calls so far (capped)
    edits,                   \* number of direct changes to result.items so far
    op,                      \* the last operation carried out
    scale,                   \* the scale string handed to parse_scale
    factor,                  \* what ElementDetector.parse_scale returned
    detector_factor,         \* what the detectors' _parse_scale returned
    drawing,                 \* what the scans find on the image handed to a detector
    detected,                \* the element list the detector returned
    image,                   \* the grayscale raster handed to the binarizer
    threshold,               \* the threshold handed to ImagePreprocessor.binarize
    binarized,               \* what ImagePreprocessor.binarize returned
    binary,                  \* the bitmap of the detectors' binarization step
    file,                    \* the file behind the path handed to analyze
    pages_arg,               \* the pages argument handed to analyze
    analysis,                \* what BauzeichnungAnalyzer.analyze returned or raised
    performed,               \* ghost: the stages analyze has run
    filter_args,             \* the arguments of the filter call
    filtered,                \* the list the filter call returned
    box,                     \* the BoundingBox whose properties are read
    box_center,              \* what box.center gave
    box_area,                \* what box.area gave
    document,                \* the document export_to_json wrote
    bitmap,                  \* the binary image (1 = foreground) handed to a scan
    config,                  \* the thresholds of the detectors and the pixel cap of the fills
    rectangles,              \* what _find_filled_rectangles returned
    gaps,                    \* what _find_wall_gaps returned
    found_lines,             \* what the line scanner pass returned
    runs,                    \* ghost: the runs the pass started at an unvisited pixel
    quantities_returned,     \* what the last calculate_quantities call returned
    computations,            \* ghost: the calculate calls that calculate_quantities has made
    summary_returned         \* what get_summary returned

vars == <<default_wall_height, default_slab_thickness, elements, result, origin,
          returned, calls, edits, op, scale, factor, detector_factor,
          drawing, detected, image, threshold, binarized, binary,
          file, pages_arg, analysis, performed, filter_args, filtered,
          box, box_center, box_area,
          document,
          bitmap, config, rectangles, gaps, found_lines, runs,
          quantities_returned, computations, summary_returned>>

calcVars == <<default_wall_height, default_slab_thickness, elements, result,
              origin, returned, calls, edits>>
scaleVars == <<scale, factor, detector_factor>>
detectVars == <<drawing, detected>>
binarizeVars == <<image, threshold, binarized, binary>>
analyzeVars == <<file, pages_arg, analysis, performed>>
filterVars == <<filter_args, filtered>>
imageVars == <<detectVars, binarizeVars, analyzeVars, filterVars>>
boxVars == <<box, box_center, box_area>>
exportVars == <<document>>
pixelVars == <<bitmap, config, rectangles, gaps, found_lines, runs>>
resultVars == <<quantities_returned, computations, summary_returned>>
restVars == <<boxVars, exportVars, pixelVars, resultVars>>

----------------------------------------------------------------------------
(* DetectedElement values handed to the calculator                         *)

DetectedElement(t, st, dims, props) ==
    [element_type |-> t, subtype |-> st, dimensions |-> dims, properties |-> props]

\* the wall of test_calculate_wall, a wall of area 6.0 at the default height
\* without a thickness, a wall without a length, and elements of the other
\* kinds with and without their dimensions (a door that carries a width alone,
\* a beam that carries a cross-section of its own); "stair" is an element_type
\* no loop of calculate selects
SampleElements ==
    { DetectedElement("wall", "exterior",
          [length_m |-> Dec(50, 1), thickness_m |-> Dec(24, 2)],
          [wall_type |-> "Außenwand"]),
      DetectedElement("wall", "interior", [length_m |-> <<24, 11>>],
          [wall_type |-> "Innenwand"]),
      DetectedElement("wall", "None", [thickness_m |-> Dec(1152, 4)], EmptyDict),
      DetectedElement("window", "standard",
          [width_m |-> Dec(15, 1), height_m |-> Dec(12, 1)],
          [window_type |-> "Standard-Fenster"]),
      DetectedElement("window", "None", EmptyDict, EmptyDict),
      DetectedElement("door", "standard", [width_m |-> Dec(101, 2)],
          [door_type |-> "Standard-Tür"]),
      DetectedElement("column", "rectangular",
          [width_m |-> Dec(254, 3), depth_m |-> Dec(401, 3)],
          [column_type |-> "Rechteckstütze"]),
      DetectedElement("column", "None", EmptyDict, EmptyDict),
      DetectedElement("beam", "standard",
          [length_m |-> Dec(4503, 3), width_m |-> Dec(2, 1), height_m |-> Dec(4, 1)],
          [beam_type |-> "Unterzug"]),
      DetectedElement("slab", "floor", [area_m2 |-> Dec(20006, 3)],
          [slab_type |-> "Geschossdecke"]),
      DetectedElement("slab", "None", EmptyDict, EmptyDict),
      DetectedElement("stair", "None", [length_m |-> Dec(30, 1)], EmptyDict) }

\* all sequences over S of length at most n
SeqsUpTo(S, n) == UNION {[1..k -> S] : k \in 0..n}

\* (default_wall_height, default_slab_thickness): the defaults and one override
Configurations == { <<Dec(275, 2), Dec(20, 2)>>, <<Dec(30, 1), Dec(18, 2)>> }

----------------------------------------------------------------------------
(* QuantityItem, QuantityResult                                            *)

QuantityItem(position, category, description, quantity, unit, dimensions, notes) ==
    [position |-> position, category |-> category, description |-> description,
     quantity |-> quantity, unit |-> unit, dimensions |-> dimensions,
     notes |-> notes]

EmptySummary == [c \in {} |-> [u \in {} |-> Zero]]

\* QuantityResult(): both fields from their default factories, so no two
\* results share a list or a dict
NewQuantityResultShared == [items |-> result.items, summary |-> result.summary]
NewQuantityResult == [items |-> <<>>, summary |-> EmptySummary]

----------------------------------------------------------------------------
(* QuantityCalculator: the per-kind formulas                               *)

calculate_wall_fixed_height(wall, position) ==
    LET dims        == wall.dimensions
        props       == wall.properties
        length_m    == Get(dims, "length_m", Zero)
        thickness_m == Get(dims, "thickness_m", Dec(24, 2))
        height_m    == Dec(275, 2)
        area_m2     == RMul(length_m, height_m)
        volume_m3   == RMul(area_m2, thickness_m)
        wall_type   == Get(props, "wall_type", "Wand")
    IN  QuantityItem(position, "Wände", <<wall_type, wall.subtype>>, area_m2, "m²",
            [length_m |-> Round(length_m, 2), height_m |-> Round(height_m, 2),
             thickness_m |-> Round(thickness_m, 3), area_m2 |-> Round(area_m2, 2),
             volume_m3 |-> Round(volume_m3, 3)],
            <<"Länge", Round(length_m, 2), "Höhe", Round(height_m, 2)>>)

calculate_wall(wall, position) ==
    LET dims        == wall.dimensions
        props       == wall.properties
        length_m    == Get(dims, "length_m", Zero)
        thickness_m == Get(dims, "thickness_m", Dec(24, 2))
        height_m    == default_wall_height
        area_m2     == RMul(length_m, height_m)
        volume_m3   == RMul(area_m2, thickness_m)
        wall_type   == Get(props, "wall_type", "Wand")
    IN  QuantityItem(position, "Wände", <<wall_type, wall.subtype>>, area_m2, "m²",
            [length_m |-> Round(length_m, 2), height_m |-> Round(height_m, 2),
             thickness_m |-> Round(thickness_m, 3), area_m2 |-> Round(area_m2, 2),
             volume_m3 |-> Round(volume_m3, 3)],
            <<"Länge", Round(length_m, 2), "Höhe", Round(height_m, 2)>>)

calculate_window_by_area(window, position) ==
    LET dims        == window.dimensions
        props       == window.properties
        width_m     == Get(dims, "width_m", One)
        height_m    == Get(dims, "height_m", Dec(12, 1))
        area_m2     == RMul(width_m, height_m)
        window_type == Get(props, "window_type", "Fenster")
    IN  QuantityItem(position, "Fenster", window_type, area_m2, "Stück",
            [width_m |-> Round(width_m, 2), height_m |-> Round(height_m, 2),
             area_m2 |-> Round(area_m2, 2)],
            <<"Größe", Round(width_m, 2), Round(height_m, 2)>>)

calculate_window(window, position) ==
    LET dims        == window.dimensions
        props       == window.properties
        width_m     == Get(dims, "width_m", One)
        height_m    == Get(dims, "height_m", Dec(12, 1))
        area_m2     == RMul(width_m, height_m)
        window_type == Get(props, "window_type", "Fenster")
    IN  QuantityItem(position, "Fenster", window_type, One, "Stück",
            [width_m |-> Round(width_m, 2), height_m |-> Round(height_m, 2),
             area_m2 |-> Round(area_m2, 2)],
            <<"Größe", Round(width_m, 2), Round(height_m, 2)>>)

calculate_door(door, position) ==
    LET dims      == door.dimensions
        props     == door.properties
        width_m   == Get(dims, "width_m", Dec(88, 2))
        height_m  == Get(dims, "height_m", Dec(201, 2))
        area_m2   == RMul(width_m, height_m)
        door_type == Get(props, "door_type", "Tür")
    IN  QuantityItem(position, "Türen", door_type, One, "Stück",
            [width_m |-> Round(width_m, 2), height_m |-> Round(height_m, 2),
             area_m2 |-> Round(area_m2, 2)],
            <<"Größe", Round(width_m, 2), Round(height_m, 2)>>)

calculate_column(column, position) ==
    LET dims             == column.dimensions
        props            == column.properties
        width_m          == Get(dims, "width_m", Dec(3, 1))
        depth_m          == Get(dims, "depth_m", Dec(3, 1))
        height_m         == default_wall_height
        cross_section_m2 == RMul(width_m, depth_m)
        volume_m3        == RMul(cross_section_m2, height_m)
        column_type      == Get(props, "column_type", "Stütze")
    IN  QuantityItem(position, "Stützen", column_type, volume_m3, "m³",
            [width_m |-> Round(width_m, 2), depth_m |-> Round(depth_m, 2),
             height_m |-> Round(height_m, 2),
             cross_section_m2 |-> Round(cross_section_m2, 4),
             volume_m3 |-> Round(volume_m3, 3)],
            <<"Querschnitt", Round(width_m, 2), Round(depth_m, 2),
              "Höhe", Round(height_m, 2)>>)

calculate_beam_own_section(beam, position) ==
    LET dims             == beam.dimensions
        props            == beam.properties
        length_m         == Get(dims, "length_m", One)
        width_m          == Get(dims, "width_m", Dec(30, 2))
        height_m         == Get(dims, "height_m", Dec(50, 2))
        cross_section_m2 == RMul(width_m, height_m)
        volume_m3        == RMul(cross_section_m2, length_m)
        beam_type        == Get(props, "beam_type", "Unterzug")
    IN  QuantityItem(position, "Unterzüge", beam_type, volume_m3, "m³",
            [length_m |-> Round(length_m, 2), width_m |-> Round(width_m, 2),
             height_m |-> Round(height_m, 2),
             cross_section_m2 |-> Round(cross_section_m2, 4),
             volume_m3 |-> Round(volume_m3, 3)],
            <<"Länge", Round(length_m, 2), "Querschnitt", Round(width_m, 2),
              Round(height_m, 2)>>)

calculate_beam(beam, position) ==
    LET dims             == beam.dimensions
        props            == beam.properties
        length_m         == Get(dims, "length_m", One)
        width_m          == Dec(30, 2)
        height_m         == Dec(50, 2)
        cross_section_m2 == RMul(width_m, height_m)
        volume_m3        == RMul(cross_section_m2, length_m)
        beam_type        == Get(props, "beam_type", "Unterzug")
    IN  QuantityItem(position, "Unterzüge", beam_type, volume_m3, "m³",
            [length_m |-> Round(length_m, 2), width_m |-> Round(width_m, 2),
             height_m |-> Round(height_m, 2),
             cross_section_m2 |-> Round(cross_section_m2, 4),
             volume_m3 |-> Round(volume_m3, 3)],
            <<"Länge", Round(length_m, 2), "Querschnitt", Round(width_m, 2),
              Round(height_m, 2)>>)

calculate_slab_by_volume(slab, position) ==
    LET dims        == slab.dimensions
        props       == slab.properties
        area_m2     == Get(dims, "area_m2", Zero)
        thickness_m == default_slab_thickness
        volume_m3   == RMul(area_m2, thickness_m)
        slab_type   == Get(props, "slab_type", "Decke")
    IN  QuantityItem(position, "Decken", slab_type, volume_m3, "m²",
            [area_m2 |-> Round(area_m2, 2), thickness_m |-> Round(thickness_m, 3),
             volume_m3 |-> Round(volume_m3, 3)],
            <<"Fläche", Round(area_m2, 2), "Dicke",
              Round(RMul(thickness_m, <<100, 1>>), 0)>>)

calculate_slab(slab, position) ==
    LET dims        == slab.dimensions
        props       == slab.properties
        area_m2     == Get(dims, "area_m2", Zero)
        thickness_m == default_slab_thickness
        volume_m3   == RMul(area_m2, thickness_m)
        slab_type   == Get(props, "slab_type", "Decke")
    IN  QuantityItem(position, "Decken", slab_type, area_m2, "m²",
            [area_m2 |-> Round(area_m2, 2), thickness_m |-> Round(thickness_m, 3),
             volume_m3 |-> Round(volume_m3, 3)],
            <<"Fläche", Round(area_m2, 2), "Dicke",
              Round(RMul(thickness_m, <<100, 1>>), 0)>>)

----------------------------------------------------------------------------
(* QuantityCalculator._create_summary                                      *)

\* one pass of the loop body: create the category and the unit on first
\* sight, then add the item's quantity
AddToSummary(summary, item, quantity) ==
    LET s1 == IF item.category \in DOMAIN summary THEN summary
              ELSE summary @@ (item.category :> [u \in {} |-> Zero])
        c1 == IF item.unit \in DOMAIN s1[item.category] THEN s1[item.category]
              ELSE s1[item.category] @@ (item.unit :> Zero)
    IN  [s1 EXCEPT ![item.category] =
            [c1 EXCEPT ![item.unit] = RAdd(c1[item.unit], quantity)]]

RECURSIVE SumItemsRounded(_, _)
SumItemsRounded(summary, items) ==
    IF items = <<>> THEN summary
    ELSE SumItemsRounded(
             AddToSummary(summary, Head(items), Round(Head(items).quantity, 2)),
             Tail(items))

RECURSIVE SumItems(_, _)
SumItems(summary, items) ==
    IF items = <<>> THEN summary
    ELSE SumItems(AddToSummary(summary, Head(items), Head(items).quantity),
                  Tail(items))

RoundAll(summary) ==
    [c \in DOMAIN summary |-> [u \in DOMAIN summary[c] |-> Round(summary[c][u], 2)]]

create_summary_round_first(items) == RoundAll(SumItemsRounded(EmptySummary, items))

create_summary(items) == RoundAll(SumItems(EmptySummary, items))

----------------------------------------------------------------------------
(* QuantityCalculator.calculate                                            *)

\* [e for e in elements if e.element_type == t], as the indices it keeps
RECURSIVE OfType(_, _, _)
OfType(es, t, i) ==
    IF i > Len(es) THEN <<>>
    ELSE (IF es[i].element_type = t THEN <<i>> ELSE <<>>) \o OfType(es, t, i + 1)

\* the order of the six loops
LoopOrderDoorsFirst == <<"wall", "door", "window", "column", "beam", "slab">>
LoopOrder == <<"wall", "window", "door", "column", "beam", "slab">>

\* position = 1
StartPosition == 1

\* position += 1
NextPositionStuck(position) == position
NextPosition(position) == position + 1

calculate_item(kind, e, position) ==
    CASE kind = "wall"   -> calculate_wall(e, position)
      [] kind = "window" -> calculate_window(e, position)
      [] kind = "door"   -> calculate_door(e, position)
      [] kind = "column" -> calculate_column(e, position)
      [] kind = "beam"   -> calculate_beam(e, position)
      [] kind = "slab"   -> calculate_slab(e, position)

\* one "for x in xs" loop: st = [items, origin, position]
RECURSIVE Loop(_, _, _, _)
Loop(st, es, kind, idxs) ==
    IF idxs = <<>> THEN st
    ELSE Loop([items    |-> Append(st.items,
                                   calculate_item(kind, es[Head(idxs)], st.position)),
               origin   |-> Append(st.origin, Head(idxs)),
               position |-> NextPosition(st.position)],
              es, kind, Tail(idxs))

RECURSIVE Loops(_, _, _)
Loops(st, es, k) ==
    IF k > Len(LoopOrder) THEN st
    ELSE Loops(Loop(st, es, LoopOrder[k], OfType(es, LoopOrder[k], 1)), es, k + 1)

\* the items list (with each item's origin) as calculate leaves it
CalculateItems(es) ==
    LET fresh == NewQuantityResult
    IN  Loops([items    |-> fresh.items,
               origin   |-> [k \in 1..Len(fresh.items) |-> 0],
               position |-> StartPosition], es, 1)

calculate(es) ==
    LET st == CalculateItems(es)
    IN  [items |-> st.items, summary |-> create_summary(st.items)]

----------------------------------------------------------------------------
(* Scale strings: str.split, float, parse_scale                            *)
(* A string is a sequence of one-character strings.                        *)

Digits == {"0", "1", "2", "3", "4", "5", "6", "7", "8", "9"}

DigitValue(c) ==
    CASE c = "0" -> 0 [] c = "1" -> 1 [] c = "2" -> 2 [] c = "3" -> 3 [] c = "4" -> 4
      [] c = "5" -> 5 [] c = "6" -> 6 [] c = "7" -> 7 [] c = "8" -> 8 [] c = "9" -> 9

\* what a call hands back: a value, or the exception it raises
Returns(v) == [exc |-> "none", value |-> v]
Raises(e) == [exc |-> e, value |-> Zero]

\* s.split(":")
RECURSIVE Split(_)
Split(s) ==
    IF \A i \in DOMAIN s : s[i] # ":" THEN <<s>>
    ELSE LET i == CHOOSE j \in DOMAIN s :
                      s[j] = ":" /\ \A k \in 1..(j - 1) : s[k] # ":"
         IN  <<SubSeq(s, 1, i - 1)>> \o Split(SubSeq(s, i + 1, Len(s)))

RECURSIVE DigitsValue(_)
DigitsValue(ds) ==
    IF ds = <<>> THEN 0
    ELSE 10 * DigitsValue(SubSeq(ds, 1, Len(ds) - 1)) + DigitValue(ds[Len(ds)])

\* float(s) on strings of digits, "." and "-": an optional sign, then digits
\* with at most one point and at least one digit; anything else is a ValueError
float(s) ==
    LET neg    == s # <<>> /\ s[1] = "-"
        body   == IF neg THEN Tail(s) ELSE s
        dots   == {i \in DOMAIN body : body[i] = "."}
        others == DOMAIN body \ dots
        digits == SelectSeq(body, LAMBDA c : c # ".")
        places == IF dots = {} THEN 0 ELSE Len(body) - (CHOOSE i \in dots : TRUE)
        n      == DigitsValue(digits)
    IN  IF /\ Cardinality(dots) <= 1
           /\ others # {}
           /\ \A i \in others : body[i] \in Digits
        THEN Returns(<<IF neg THEN -n ELSE n, Pow10(places)>>)
        ELSE Raises("ValueError")

\* a / b on floats: ZeroDivisionError for a zero divisor (0.0 and -0.0 alike)
Divide(a, b) ==
    IF b[1] = 0 THEN Raises("ZeroDivisionError")
    ELSE Returns(Rat(a[1] * b[2], a[2] * b[1]))

\* the fixed default ratio 1:100
DefaultScale == <<1, 100>>

\* the body of the try block: float(parts[0]) / float(parts[1]) when the
\* split gives two parts; the first exception raised ends it
ScaleQuotient(parts) ==
    LET numerator   == float(parts[1])
        denominator == float(parts[2])
    IN  IF numerator.exc # "none" THEN numerator
        ELSE IF denominator.exc # "none" THEN denominator
        ELSE Divide(numerator.value, denominator.value)

\* try: <body> except <caught>: return default
TryExcept(body, caught, default) ==
    IF body.exc \in caught THEN Returns(default) ELSE body

\* ElementDetector.parse_scale
parse_scale_value_error_only(s) ==
    LET parts == Split(s)
    IN  TryExcept(IF Len(parts) = 2 THEN ScaleQuotient(parts)
                  ELSE Returns(DefaultScale),
                  {"ValueError"}, DefaultScale)

parse_scale(s) ==
    LET parts == Split(s)
    IN  TryExcept(IF Len(parts) = 2 THEN ScaleQuotient(parts)
                  ELSE Returns(DefaultScale),
                  {"ValueError", "ZeroDivisionError"}, DefaultScale)

\* WallDetector._parse_scale (OpeningDetector and StructuralDetector carry the
\* same text): the return inside the try, the fallback after it
detector_parse_scale(s) ==
    LET parts == Split(s)
        tried == IF Len(parts) = 2 THEN ScaleQuotient(parts) ELSE Raises("fallthrough")
    IN  TryExcept(tried, {"ValueError", "ZeroDivisionError", "fallthrough"},
                  DefaultScale)

ScaleAlphabet == {"0", "1", "5", ":", ".", "-", "a"}

\* every string over the alphabet up to the bound, and the malformed strings
\* of the tests and the specification
ScaleStrings ==
    SeqsUpTo(ScaleAlphabet, MaxScaleLen)
        \cup { <<"a", "b", "c">>, <<"i", "n", "v", "a", "l", "i", "d">> }

----------------------------------------------------------------------------
(* The detectors: WallDetector, OpeningDetector, StructuralDetector         *)
(* An image is given by what the scans find on its bitmap: the runs the    *)
(* line scanner meets and measures, and the connected components the       *)
(* flood fills visit, each in the order the scan meets them.               *)

Max(a, b) == IF a >= b THEN a ELSE b
Min(a, b) == IF a <= b THEN a ELSE b

\* an int as a number
Number(n) == <<n, 1>>

\* [f(e) for e in s]
Map(f(_), s) == [i \in DOMAIN s |-> f(s[i])]

\* a run of contiguous foreground pixels that a scanner pass starts at (x, y)
\* and the thickness _measure_line_thickness gives for it
Run(direction, x, y, length, thickness) ==
    [kind |-> direction, x |-> x, y |-> y, length |-> length,
     thickness |-> thickness]

\* a connected component a flood fill has visited: the extreme coordinates
\* and the number of pixels it counted
Component(kind, min_x, min_y, max_x, max_y, count) ==
    [kind |-> kind, min_x |-> min_x, min_y |-> min_y, max_x |-> max_x,
     max_y |-> max_y, count |-> count]

Found(found, kind) == SelectSeq(found, LAMBDA f : f.kind = kind)

BoundingBox(x, y, width, height) ==
    [x |-> x, y |-> y, width |-> width, height |-> height]

\* a DetectedElement with all six fields
DetectedElementAt(t, st, bbox, confidence, dims, props) ==
    [element_type |-> t, subtype |-> st, bbox |-> bbox,
     confidence |-> confidence, dimensions |-> dims, properties |-> props]

None == <<>>

\* WallDetector.__init__: the default thresholds
exterior_wall_min_thickness == 10
interior_wall_min_thickness == 5

\* the default of _detect_horizontal_lines and _detect_vertical_lines
min_length == 50

\* the run a pass has met is kept when it is long and thick enough
detect_horizontal_lines(found) ==
    Map(LAMBDA r : <<r.x, r.y, r.length, r.thickness, r.thickness>>,
        SelectSeq(Found(found, "horizontal"),
                  LAMBDA r : /\ r.length >= min_length
                             /\ r.thickness >= interior_wall_min_thickness))

detect_vertical_lines(found) ==
    Map(LAMBDA r : <<r.x, r.y, r.thickness, r.length, r.thickness>>,
        SelectSeq(Found(found, "vertical"),
                  LAMBDA r : /\ r.length >= min_length
                             /\ r.thickness >= interior_wall_min_thickness))

\* the if / elif / else of WallDetector.detect; "none" is the continue
wall_subtype_above(thickness) ==
    IF thickness > exterior_wall_min_thickness THEN "exterior"
    ELSE IF thickness > interior_wall_min_thickness THEN "interior"
    ELSE "none"

wall_subtype(thickness) ==
    IF thickness >= exterior_wall_min_thickness THEN "exterior"
    ELSE IF thickness >= interior_wall_min_thickness THEN "interior"
    ELSE "none"

Wall(line, scale_factor) ==
    LET x == line[1]
        y == line[2]
        w == line[3]
        h == line[4]
        thickness == line[5]
        subtype == wall_subtype(thickness)
    IN  DetectedElementAt("wall", subtype, BoundingBox(x, y, w, h), Dec(8, 1),
            [length_px    |-> Number(Max(w, h)),
             thickness_px |-> Number(thickness),
             length_m     |-> RMul(Number(Max(w, h)), scale_factor),
             thickness_m  |-> RMul(Number(thickness), scale_factor)],
            [wall_type   |-> IF subtype = "exterior" THEN "Außenwand"
                             ELSE "Innenwand",
             orientation |-> IF w > h THEN "horizontal" ELSE "vertical"])

\* WallDetector.detect
WallDetector_detect(found, s) ==
    LET lines == detect_horizontal_lines(found) \o detect_vertical_lines(found)
        scale_factor == detector_parse_scale(s).value
    IN  Map(LAMBDA line : Wall(line, scale_factor),
            SelectSeq(lines, LAMBDA line : wall_subtype(line[5]) # "none"))

\* OpeningDetector.__init__: the default widths
min_opening_width == 20
max_opening_width == 200

\* the default of _flood_fill_region
max_size == 10000

\* OpeningDetector._flood_fill_region, on the component its fill has visited
flood_fill_region(c) ==
    IF c.count > 0 /\ c.count < max_size
    THEN <<c.min_x, c.min_y, c.max_x - c.min_x + 1, c.max_y - c.min_y + 1>>
    ELSE None

\* OpeningDetector._find_wall_gaps
find_wall_gaps(found) ==
    SelectSeq(Map(flood_fill_region, Found(found, "background")),
              LAMBDA region :
                  /\ region # None
                  /\ min_opening_width <= region[3]
                  /\ region[3] <= max_opening_width
                  /\ min_opening_width \div 2 <= region[4]
                  /\ region[4] <= max_opening_width)

\* OpeningDetector._find_door_swings: a placeholder
find_door_swings_from_gaps(found) == find_wall_gaps(found)
find_door_swings(found) == <<>>

Opening(kind, label, region, scale_factor) ==
    LET x == region[1]
        y == region[2]
        w == region[3]
        h == region[4]
    IN  DetectedElementAt(kind, "standard", BoundingBox(x, y, w, h), Dec(7, 1),
            [width_px  |-> Number(w),
             height_px |-> Number(h),
             width_m   |-> RMul(Number(w), scale_factor),
             height_m  |-> RMul(Number(h), scale_factor)],
            label)

\* OpeningDetector._detect_windows
detect_windows(found, s) ==
    LET scale_factor == detector_parse_scale(s).value
    IN  Map(LAMBDA region : Opening("window", [window_type |-> "Standard-Fenster"],
                                    region, scale_factor),
            SelectSeq(find_wall_gaps(found),
                      LAMBDA region : /\ min_opening_width <= region[3]
                                      /\ region[3] <= max_opening_width
                                      /\ region[4] < region[3] * 2))

\* OpeningDetector._detect_doors
detect_doors(found, s) ==
    LET scale_factor == detector_parse_scale(s).value
    IN  Map(LAMBDA region : Opening("door", [door_type |-> "Standard-Tür"],
                                    region, scale_factor),
            SelectSeq(find_door_swings(found),
                      LAMBDA region : /\ min_opening_width <= region[3]
                                      /\ region[3] <= max_opening_width))

\* OpeningDetector.detect
OpeningDetector_detect(found, s) == detect_windows(found, s) \o detect_doors(found, s)

\* StructuralDetector.__init__: the default sizes
min_column_size == 10
max_column_size == 100

\* StructuralDetector._find_filled_rectangles, on the components its fills
\* have visited: (min_x, min_y, w, h, fill_ratio) when more than half filled
find_filled_rectangles(found) ==
    LET rectangle(c) ==
            LET w == c.max_x - c.min_x + 1
                h == c.max_y - c.min_y + 1
            IN  <<c.min_x, c.min_y, w, h,
                  IF w * h > 0 THEN <<c.count, w * h>> ELSE Zero>>
    IN  SelectSeq(Map(rectangle,
                      SelectSeq(Found(found, "foreground"),
                                LAMBDA c : c.count > 0)),
                  LAMBDA r : 2 * r[5][1] > r[5][2])

Column(region, scale_factor) ==
    LET x == region[1]
        y == region[2]
        w == region[3]
        h == region[4]
        fill_ratio == region[5]
    IN  DetectedElementAt("column", "standard", BoundingBox(x, y, w, h),
            Dec(75, 2),
            [width_px  |-> Number(w),
             depth_px  |-> Number(h),
             width_m   |-> RMul(Number(w), scale_factor),
             depth_m   |-> RMul(Number(h), scale_factor),
             cross_section_m2 |-> RMul(RMul(Number(w), scale_factor),
                                       RMul(Number(h), scale_factor))],
            [column_type |-> "Rechteckstütze", fill_ratio |-> fill_ratio])

\* the tests of _detect_columns on one region
is_column_any_fill(region) ==
    LET w == region[3]
        h == region[4]
    IN  /\ min_column_size <= w /\ w <= max_column_size
        /\ min_column_size <= h /\ h <= max_column_size
        /\ (IF Min(w, h) > 0 THEN Max(w, h) < 3 * Min(w, h) ELSE FALSE)

is_column(region) ==
    LET w == region[3]
        h == region[4]
        fill_ratio == region[5]
    IN  /\ min_column_size <= w /\ w <= max_column_size
        /\ min_column_size <= h /\ h <= max_column_size
        \* aspect_ratio = max(w, h) / min(w, h) if min(w, h) > 0 else 10
        /\ (IF Min(w, h) > 0 THEN Max(w, h) < 3 * Min(w, h) ELSE FALSE)
        /\ 10 * fill_ratio[1] > 7 * fill_ratio[2]

\* StructuralDetector._detect_columns
detect_columns(found, s) ==
    LET scale_factor == detector_parse_scale(s).value
    IN  Map(LAMBDA region : Column(region, scale_factor),
            SelectSeq(find_filled_rectangles(found), is_column))

\* StructuralDetector._find_dashed_lines, _find_hatched_regions: placeholders
find_dashed_lines(found) == <<>>
find_hatched_regions(found) == <<>>

\* StructuralDetector._detect_beams
detect_beams(found, s) ==
    LET scale_factor == detector_parse_scale(s).value
        beam(line) ==
            LET x == line[1]
                y == line[2]
                w == line[3]
                h == line[4]
            IN  DetectedElementAt("beam", "standard", BoundingBox(x, y, w, h),
                    Dec(65, 2),
                    [length_px |-> Number(Max(w, h)),
                     length_m  |-> RMul(Number(Max(w, h)), scale_factor)],
                    [beam_type   |-> "Unterzug",
                     orientation |-> IF w > h THEN "horizontal" ELSE "vertical"])
    IN  Map(beam, find_dashed_lines(found))

\* StructuralDetector._detect_slabs
detect_slabs(found, s) ==
    LET scale_factor == detector_parse_scale(s).value
        slab(region) ==
            LET x == region[1]
                y == region[2]
                w == region[3]
                h == region[4]
            IN  DetectedElementAt("slab", "floor", BoundingBox(x, y, w, h),
                    Dec(6, 1),
                    [width_px  |-> Number(w),
                     height_px |-> Number(h),
                     area_px   |-> Number(w * h),
                     width_m   |-> RMul(Number(w), scale_factor),
                     height_m  |-> RMul(Number(h), scale_factor),
                     area_m2   |-> RMul(RMul(Number(w), scale_factor),
                                        RMul(Number(h), scale_factor))],
                    [slab_type |-> "Geschossdecke"])
    IN  Map(slab, find_hatched_regions(found))

\* StructuralDetector.detect
StructuralDetector_detect(found, s) ==
    detect_columns(found, s) \o detect_beams(found, s) \o detect_slabs(found, s)

\* ElementDetector.detect_all
detect_all(found, s) ==
    WallDetector_detect(found, s) \o OpeningDetector_detect(found, s)
        \o StructuralDetector_detect(found, s)

\* the scales the drawings come in
DrawingScales == { <<"1", ":", "1", "0", "0">>, <<"1", ":", "5", "0">> }

\* runs and components around every threshold of the three detectors
SampleFindings ==
    { Run("horizontal", 0, 0, 60, 12),
      Run("horizontal", 10, 20, 50, 5),
      Run("horizontal", 0, 40, 80, 10),
      Run("horizontal", 0, 60, 55, 4),
      Run("horizontal", 5, 70, 49, 12),
      Run("vertical", 0, 0, 70, 9),
      Run("vertical", 90, 0, 50, 10),
      Component("background", 1, 1, 20, 10, 200),
      Component("background", 100, 1, 129, 70, 2100),
      Component("background", 30, 1, 79, 5, 250),
      Component("background", 1, 20, 19, 49, 570),
      Component("background", 1, 1, 201, 50, 9000),
      Component("background", 40, 1, 79, 80, 3200),
      Component("background", 0, 0, 149, 99, 10000),
      Component("foreground", 0, 0, 9, 9, 100),
      Component("foreground", 20, 0, 39, 29, 421),
      Component("foreground", 40, 0, 49, 29, 300),
      Component("foreground", 0, 30, 8, 38, 81),
      Component("foreground", 0, 50, 100, 99, 5050),
      Component("foreground", 60, 0, 79, 19, 280),
      Component("foreground", 60, 30, 79, 49, 200),
      Component("foreground", 60, 60, 71, 71, 73) }

\* the findings of one image: no finding twice
Drawings ==
    {d \in SeqsUpTo(SampleFindings, MaxFound) :
        \A i, j \in DOMAIN d : i # j => d[i] # d[j]}

----------------------------------------------------------------------------
(* Operations                                                              *)

\* the parts of the state an operation of another component leaves idle
NoCalculation ==
    /\ default_wall_height = Dec(275, 2)
    /\ default_slab_thickness = Dec(20, 2)
    /\ elements = <<>>
    /\ result = [items |-> <<>>, summary |-> EmptySummary]
    /\ origin = <<>>
    /\ returned = {}
    /\ calls = 0
    /\ edits = 0

NothingDetected == drawing = <<>> /\ detected = <<>>

NothingBinarized ==
    /\ image = <<>>
    /\ threshold = 128
    /\ binarized = Returns(<<>>)
    /\ binary = <<>>

NothingAnalyzed ==
    /\ file = [path |-> "missing.pdf", exists |-> FALSE, pages |-> <<>>]
    /\ pages_arg = None
    /\ analysis = Returns(<<>>)
    /\ performed = {}

NothingFiltered ==
    /\ filter_args = [element_type |-> "wall", min_confidence |-> Dec(5, 1)]
    /\ filtered = <<>>

NoImage ==
    /\ NothingDetected
    /\ NothingBinarized
    /\ NothingAnalyzed
    /\ NothingFiltered

NoBox ==
    /\ box = [x |-> 0, y |-> 0, width |-> 1, height |-> 1]
    /\ box_center = <<>>
    /\ box_area = 0

NothingExported ==
    /\ document = <<>>

NothingScanned ==
    /\ bitmap = [width |-> 0, height |-> 0, foreground |-> {}]
    /\ config = <<>>
    /\ rectangles = <<>>
    /\ gaps = <<>>
    /\ found_lines = <<>>
    /\ runs = <<>>

NoResult ==
    /\ quantities_returned = None
    /\ computations = 0
    /\ summary_returned = <<>>

NothingElse ==
    /\ NoBox
    /\ NothingExported
    /\ NothingScanned
    /\ NoResult

\* calculator.calculate(elements); the caller keeps the returned result.
\* calls counts 0, 1, many.
Calculate ==
    \E st \in {CalculateItems(elements)} :
        /\ result'   = [items |-> st.items, summary |-> create_summary(st.items)]
        /\ origin'   = st.origin
        /\ returned' = returned \cup {result'}
        /\ calls'    = IF calls < 2 THEN calls + 1 ELSE calls
        /\ edits'    = 0
        /\ op'       = "calculate"
        /\ UNCHANGED <<default_wall_height, default_slab_thickness, elements,
                       scaleVars, imageVars, restVars>>

\* The items of test_filter_by_category, which the test assigns to result.items
TestItems ==
    << QuantityItem(1, "Wände", "", One, "m²", EmptyDict, ""),
       QuantityItem(2, "Fenster", "", <<2, 1>>, "Stück", EmptyDict, ""),
       QuantityItem(3, "Wände", "", <<3, 1>>, "m²", EmptyDict, "") >>

\* result.items = [...]: QuantityResult is a plain dataclass, the assignment
\* touches the items field alone
AssignItems ==
    /\ edits < MaxEdits
    /\ result' = [result EXCEPT !.items = TestItems]
    /\ origin' = [k \in 1..Len(TestItems) |-> 0]
    /\ edits'  = edits + 1
    /\ op'     = "edit"
    /\ UNCHANGED <<default_wall_height, default_slab_thickness, elements,
                   returned, calls, scaleVars, imageVars, restVars>>

\* result.items.append(item)
AppendItem ==
    /\ edits < MaxEdits
    /\ \E k \in 1..Len(TestItems) :
          result' = [result EXCEPT !.items = Append(@, TestItems[k])]
    /\ origin' = Append(origin, 0)
    /\ edits'  = edits + 1
    /\ op'     = "edit"
    /\ UNCHANGED <<default_wall_height, default_slab_thickness, elements,
                   returned, calls, scaleVars, imageVars, restVars>>

\* del result.items[k]
RemoveItem ==
    /\ edits < MaxEdits
    /\ \E k \in 1..Len(result.items) :
          /\ result' = [result EXCEPT !.items =
                           SubSeq(@, 1, k - 1) \o SubSeq(@, k + 1, Len(@))]
          /\ origin' = SubSeq(origin, 1, k - 1) \o SubSeq(origin, k + 1, Len(origin))
    /\ edits'  = edits + 1
    /\ op'     = "edit"
    /\ UNCHANGED <<default_wall_height, default_slab_thickness, elements,
                   returned, calls, scaleVars, imageVars, restVars>>

InitCalc ==
    /\ \E c \in Configurations :
          /\ default_wall_height = c[1]
          /\ default_slab_thickness = c[2]
    /\ elements \in SeqsUpTo(SampleElements, MaxElems)
    /\ result = [items |-> <<>>, summary |-> EmptySummary]
    /\ origin = <<>>
    /\ returned = {}
    /\ calls = 0
    /\ edits = 0
    /\ op = "init"
    /\ NothingElse
    /\ scale = <<>>
    /\ factor = Returns(Zero)
    /\ detector_factor = Returns(Zero)
    /\ NoImage

Spec == InitCalc /\ [][Calculate]_vars

----------------------------------------------------------------------------
(* Scale parsing as an operation                                           *)

ParseScale ==
    /\ op = "init"
    /\ factor' = parse_scale(scale)
    /\ detector_factor' = detector_parse_scale(scale)
    /\ op' = "parse_scale"
    /\ UNCHANGED <<calcVars, scale, imageVars, restVars>>

InitScale ==
    /\ default_wall_height = Dec(275, 2)
    /\ default_slab_thickness = Dec(20, 2)
    /\ elements = <<>>
    /\ result = [items |-> <<>>, summary |-> EmptySummary]
    /\ origin = <<>>
    /\ returned = {}
    /\ calls = 0
    /\ edits = 0
    /\ op = "init"
    /\ NothingElse
    /\ scale \in ScaleStrings
    /\ factor = Returns(Zero)
    /\ detector_factor = Returns(Zero)
    /\ NoImage

SpecScale == InitScale /\ [][ParseScale]_vars

----------------------------------------------------------------------------
\* the same calculator with a caller that also changes the items of the result
\* it holds
InitEdit ==
    /\ InitCalc
    /\ Len(elements) <= MaxEditElems

NextEdit == Calculate \/ AssignItems \/ AppendItem \/ RemoveItem

SpecEdit == InitEdit /\ [][NextEdit]_vars

----------------------------------------------------------------------------
(* The detectors as operations                                             *)

\* detector.detect_all(image, scale)
DetectAll ==
    /\ op = "init"
    /\ drawing # <<>>
    /\ detected' = detect_all(drawing, scale)
    /\ op' = "detect_all"
    /\ UNCHANGED <<calcVars, scaleVars, drawing, binarizeVars, analyzeVars,
                   filterVars, restVars>>

\* detector.detect_walls(image, scale)
DetectWalls ==
    /\ op = "init"
    /\ drawing # <<>>
    /\ detected' = WallDetector_detect(drawing, scale)
    /\ op' = "detect_walls"
    /\ UNCHANGED <<calcVars, scaleVars, drawing, binarizeVars, analyzeVars,
                   filterVars, restVars>>

\* detector.detect_openings(image, scale)
DetectOpenings ==
    /\ op = "init"
    /\ drawing # <<>>
    /\ detected' = OpeningDetector_detect(drawing, scale)
    /\ op' = "detect_openings"
    /\ UNCHANGED <<calcVars, scaleVars, drawing, binarizeVars, analyzeVars,
                   filterVars, restVars>>

\* detector.detect_structural(image, scale)
DetectStructural ==
    /\ op = "init"
    /\ drawing # <<>>
    /\ detected' = StructuralDetector_detect(drawing, scale)
    /\ op' = "detect_structural"
    /\ UNCHANGED <<calcVars, scaleVars, drawing, binarizeVars, analyzeVars,
                   filterVars, restVars>>

InitDetect ==
    /\ NoCalculation
    /\ op = "init"
    /\ NothingElse
    /\ scale \in DrawingScales
    /\ factor = Returns(Zero)
    /\ detector_factor = Returns(Zero)
    /\ drawing \in Drawings
    /\ detected = <<>>
    /\ NothingBinarized
    /\ NothingAnalyzed
    /\ NothingFiltered

NextDetect == DetectAll \/ DetectWalls \/ DetectOpenings \/ DetectStructural

SpecDetect == InitDetect /\ [][NextDetect]_vars

----------------------------------------------------------------------------
(* Binarization: ImagePreprocessor.binarize and the detectors' own step    *)
(* A grayscale raster is the sequence of its pixel intensities (uint8) in  *)
(* row-major order.                                                        *)

\* np.where(array > threshold, 255, 0): white above the threshold, black (the
\* ink, foreground) from the threshold down; no argument is rejected
binarize(array, t) ==
    Returns([i \in DOMAIN array |-> IF array[i] > t THEN 255 ELSE 0])

\* threshold = 128; np.where(img_array < threshold, 1, 0): 1 is foreground
detector_threshold == 128

detector_binarize(array) ==
    [i \in DOMAIN array |-> IF array[i] < detector_threshold THEN 1 ELSE 0]

\* intensities and thresholds around the detectors' threshold and the ends of
\* the uint8 range
SampleIntensities == {0, 127, 128, 129, 255}
SampleThresholds == {-1, 0, 100, 127, 128, 255, 256}

\* preprocessor.binarize(image, threshold), and the binarization step of a
\* detector on the same image
Binarize ==
    /\ op = "init"
    /\ image # <<>>
    /\ binarized' = binarize(image, threshold)
    /\ binary' = detector_binarize(image)
    /\ op' = "binarize"
    /\ UNCHANGED <<calcVars, scaleVars, detectVars, image, threshold,
                   analyzeVars, filterVars, restVars>>

InitBinarize ==
    /\ NoCalculation
    /\ op = "init"
    /\ NothingElse
    /\ scale = <<>>
    /\ factor = Returns(Zero)
    /\ detector_factor = Returns(Zero)
    /\ NothingDetected
    /\ image \in SeqsUpTo(SampleIntensities, MaxPixels)
    /\ threshold \in SampleThresholds
    /\ binarized = Returns(<<>>)
    /\ binary = <<>>
    /\ NothingAnalyzed
    /\ NothingFiltered

SpecBinarize == InitBinarize /\ [][Binarize]_vars

----------------------------------------------------------------------------
(* BauzeichnungAnalyzer: analyze, analyze_image                            *)
(* A file is its path, whether it exists, and the page images it holds; a  *)
(* page image is what the scans find on it, the text regions Tesseract     *)
(* reads on it, and which of the three text-extraction steps fail on it.   *)

TextRegion(text, x, y, width, height, confidence) ==
    [text |-> text, x |-> x, y |-> y, width |-> width, height |-> height,
     confidence |-> confidence]

DimensionInfo(value, unit, text, region) ==
    [value |-> value, unit |-> unit, text |-> text, region |-> region]

\* TextExtractor._parse_dimension on the sample texts
parse_dimension(text) ==
    CASE text = "3,50 m" -> DimensionInfo(Dec(350, 2), "m", text, None)
      [] text = "120 cm" -> DimensionInfo(<<120, 100>>, "cm", text, None)
      [] OTHER           -> None

\* alpha_ratio > 0.5 and len(text) >= 2 on the sample texts
is_label(text) == text \in {"Bad", "Flur"}

\* TextExtractor.extract_text: an exception of the Tesseract call is logged
\* and turned into []
extract_text(page, call_succeeds) ==
    IF call_succeeds THEN page.regions ELSE <<>>

\* TextExtractor.extract_dimensions
extract_dimensions(text_regions) ==
    Map(LAMBDA region : [parse_dimension(region.text) EXCEPT !.region = region],
        SelectSeq(text_regions, LAMBDA region : parse_dimension(region.text) # None))

\* TextExtractor.extract_labels
extract_labels(text_regions) ==
    SelectSeq(text_regions, LAMBDA region : is_label(region.text))

\* the try block of analyze and of analyze_image on one page: what the page
\* adds to the dimensions and to the labels.  An exception of
\* preprocess_for_ocr ends the block before anything is added.
extract_page_text(page) ==
    IF ~page.ocr.preprocess
    THEN [dimensions |-> <<>>, labels |-> <<>>]
    ELSE [dimensions |-> extract_dimensions(extract_text(page, page.ocr.first_call)),
          labels     |-> extract_labels(extract_text(page, page.ocr.second_call))]

\* file_path.suffix.lower()
Suffix(path) ==
    CASE path \in {"plan.pdf", "missing.pdf"} -> ".pdf"
      [] path = "scan.PNG"                    -> ".PNG"
      [] path \in {"notes.xyz", "missing.xyz"} -> ".xyz"

lower(s) == IF s = ".PNG" THEN ".png" ELSE s

ImageSuffixes == {".png", ".jpg", ".jpeg", ".tiff", ".tif", ".bmp"}

\* BauzeichnungAnalyzer._load_images; pages is None or a list of page numbers
load_images_any_suffix(f, pages) ==
    LET suffix == lower(Suffix(f.path))
    IN  IF suffix = ".pdf"
        THEN Returns(IF pages # None
                     THEN Map(LAMBDA i : f.pages[i],
                              SelectSeq(pages, LAMBDA i : 0 < i /\ i <= Len(f.pages)))
                     ELSE f.pages)
        ELSE Returns(<<f.pages[1]>>)

load_images(f, pages) ==
    LET suffix == lower(Suffix(f.path))
    IN  IF suffix = ".pdf"
        THEN Returns(IF pages # None
                     THEN Map(LAMBDA i : f.pages[i],
                              SelectSeq(pages, LAMBDA i : 0 < i /\ i <= Len(f.pages)))
                     ELSE f.pages)
        ELSE IF suffix \in ImageSuffixes
        THEN Returns(<<f.pages[1]>>)
        ELSE Raises("ValueError")

RECURSIVE Extend(_)
\* all_x.extend(x) for each list of xs in turn
Extend(xs) == IF xs = <<>> THEN <<>> ELSE Head(xs) \o Extend(Tail(xs))

AnalysisResult(source_file, s, es, dimensions, labels, quantities) ==
    [source_file |-> source_file, scale |-> s, elements |-> es,
     dimensions |-> dimensions, labels |-> labels, quantities |-> quantities]

\* the loop of analyze over the loaded images and what follows it
analyze_images(source_file, images, s) ==
    LET all_elements   == Extend(Map(LAMBDA page : detect_all(page.drawing, s), images))
        all_dimensions == Extend(Map(LAMBDA page : extract_page_text(page).dimensions,
                                     images))
        all_labels     == Extend(Map(LAMBDA page : extract_page_text(page).labels,
                                     images))
    IN  AnalysisResult(source_file, s, all_elements, all_dimensions, all_labels,
                       calculate(all_elements))

\* BauzeichnungAnalyzer.analyze
analyze(f, s, pages) ==
    IF ~f.exists THEN Raises("FileNotFoundError")
    ELSE LET images == load_images(f, pages)
         IN  IF images.exc # "none" THEN images
             ELSE IF images.value = <<>> THEN Raises("ValueError")
             ELSE Returns(analyze_images(f.path, images.value, s))

\* the stages a call of analyze runs
stages(f, pages) ==
    IF ~f.exists THEN {}
    ELSE IF load_images(f, pages).exc # "none" \/ load_images(f, pages).value = <<>>
    THEN {"load"}
    ELSE {"load", "detect", "ocr", "calculate"}

\* BauzeichnungAnalyzer.analyze_image
analyze_image(page, s, source_name) ==
    LET es   == detect_all(page.drawing, s)
        text == extract_page_text(page)
    IN  AnalysisResult(source_name, s, es, text.dimensions, text.labels,
                       calculate(es))

\* the outcomes of the three text-extraction steps on a page: a failure of
\* preprocess_for_ocr ends the block, each Tesseract call fails on its own
OcrOutcomes ==
    { [preprocess |-> FALSE, first_call |-> TRUE, second_call |-> TRUE] }
    \cup { [preprocess |-> TRUE, first_call |-> a, second_call |-> b] :
              a \in BOOLEAN, b \in BOOLEAN }

SamplePages ==
    { [drawing |-> content[1], regions |-> content[2], ocr |-> o] :
        content \in { << <<Run("horizontal", 0, 0, 60, 12)>>,
                         <<TextRegion("3,50 m", 10, 10, 40, 12, Number(91)),
                           TextRegion("Bad", 60, 60, 30, 12, Number(88))>> >>,
                      << <<Component("background", 1, 1, 20, 10, 200),
                           Component("foreground", 0, 0, 9, 9, 100)>>,
                         <<TextRegion("120 cm", 5, 80, 42, 12, Number(75)),
                           TextRegion("Flur", 20, 30, 36, 12, Number(93))>> >> },
        o \in OcrOutcomes }

\* a PDF of one or more pages, image files, a file of an unsupported format,
\* and paths behind which there is no file
SampleFiles ==
    { [path |-> "plan.pdf", exists |-> TRUE, pages |-> ps] :
        ps \in SeqsUpTo(SamplePages, MaxPages) \ {<<>>} }
    \cup { [path |-> p, exists |-> TRUE, pages |-> <<page>>] :
              p \in {"scan.PNG", "notes.xyz"}, page \in SamplePages }
    \cup { [path |-> p, exists |-> FALSE, pages |-> <<>>] :
              p \in {"missing.pdf", "missing.xyz"} }

\* the pages arguments of analyze
PageSelections == {None, <<1>>, <<2, 1>>, <<3>>}

\* analyzer.analyze(file_path, scale, pages)
Analyze ==
    /\ op = "init"
    /\ analysis' = analyze(file, scale, pages_arg)
    /\ performed' = stages(file, pages_arg)
    /\ op' = "analyze"
    /\ UNCHANGED <<calcVars, scaleVars, detectVars, binarizeVars, file, pages_arg,
                   filterVars, restVars>>

\* analyzer.analyze_image(image, scale) on the first page image of the file
AnalyzeImage ==
    /\ op = "init"
    /\ file.exists
    /\ analysis' = Returns(analyze_image(file.pages[1], scale, "image"))
    /\ performed' = {"detect", "ocr", "calculate"}
    /\ op' = "analyze_image"
    /\ UNCHANGED <<calcVars, scaleVars, detectVars, binarizeVars, file, pages_arg,
                   filterVars, restVars>>

InitAnalyze ==
    /\ \E c \in Configurations :
          /\ default_wall_height = c[1]
          /\ default_slab_thickness = c[2]
    /\ elements = <<>>
    /\ result = [items |-> <<>>, summary |-> EmptySummary]
    /\ origin = <<>>
    /\ returned = {}
    /\ calls = 0
    /\ edits = 0
    /\ op = "init"
    /\ NothingElse
    /\ scale = <<"1", ":", "1", "0", "0">>
    /\ factor = Returns(Zero)
    /\ detector_factor = Returns(Zero)
    /\ NothingDetected
    /\ NothingBinarized
    /\ file \in SampleFiles
    /\ pages_arg \in PageSelections
    /\ analysis = Returns(<<>>)
    /\ performed = {}
    /\ NothingFiltered

NextAnalyze == Analyze \/ AnalyzeImage

SpecAnalyze == InitAnalyze /\ [][NextAnalyze]_vars

----------------------------------------------------------------------------
(* ElementDetector.filter_by_type, filter_by_confidence                    *)

\* a >= b on numbers
Geq(a, b) == a[1] * b[2] >= b[1] * a[2]

\* ElementDetector.filter_by_type
filter_by_type(es, element_type) ==
    SelectSeq(es, LAMBDA e : e.element_type = element_type)

\* ElementDetector.filter_by_confidence
filter_by_confidence_above(es, min_conf) ==
    SelectSeq(es, LAMBDA e : ~Geq(min_conf, e.confidence))

filter_by_confidence(es, min_conf) ==
    SelectSeq(es, LAMBDA e : Geq(e.confidence, min_conf))

\* the elements of test_filter_by_type and test_filter_by_confidence: the
\* fields not given take their defaults
SampleDetected ==
    { DetectedElementAt("wall", "None", None, Dec(9, 1), EmptyDict, EmptyDict),
      DetectedElementAt("wall", "None", None, Dec(3, 1), EmptyDict, EmptyDict),
      DetectedElementAt("wall", "None", None, Dec(7, 1), EmptyDict, EmptyDict),
      DetectedElementAt("window", "None", None, Zero, EmptyDict, EmptyDict),
      DetectedElementAt("door", "None", None, Dec(5, 1), EmptyDict, EmptyDict) }

FilterTypes == {"wall", "window", "door", "slab"}
FilterThresholds == {Zero, Dec(5, 1), Dec(7, 1), Dec(9, 1), One}

\* detector.filter_by_type(elements, element_type)
FilterByType ==
    /\ op = "init"
    /\ filtered' = filter_by_type(elements, filter_args.element_type)
    /\ op' = "filter_by_type"
    /\ UNCHANGED <<calcVars, scaleVars, detectVars, binarizeVars, analyzeVars,
                   filter_args, restVars>>

\* detector.filter_by_confidence(elements, min_confidence)
FilterByConfidence ==
    /\ op = "init"
    /\ filtered' = filter_by_confidence(elements, filter_args.min_confidence)
    /\ op' = "filter_by_confidence"
    /\ UNCHANGED <<calcVars, scaleVars, detectVars, binarizeVars, analyzeVars,
                   filter_args, restVars>>

InitFilter ==
    /\ default_wall_height = Dec(275, 2)
    /\ default_slab_thickness = Dec(20, 2)
    /\ elements \in SeqsUpTo(SampleDetected, MaxElems)
    /\ result = [items |-> <<>>, summary |-> EmptySummary]
    /\ origin = <<>>
    /\ returned = {}
    /\ calls = 0
    /\ edits = 0
    /\ op = "init"
    /\ NothingElse
    /\ scale = <<>>
    /\ factor = Returns(Zero)
    /\ detector_factor = Returns(Zero)
    /\ NothingDetected
    /\ NothingBinarized
    /\ NothingAnalyzed
    /\ filter_args \in [element_type : FilterTypes, min_confidence : FilterThresholds]
    /\ filtered = <<>>

NextFilter == FilterByType \/ FilterByConfidence

SpecFilter == InitFilter /\ [][NextFilter]_vars

----------------------------------------------------------------------------
(* Properties of calculate                                                 *)

AfterCalculate == op = "calculate"

\* the six element kinds in the order the specification gives them
Kinds == <<"wall", "window", "door", "column", "beam", "slab">>
KindSet == {Kinds[i] : i \in DOMAIN Kinds}

Items == result.items

\* the elements whose element_type is one of the six kinds
KnownElements == {i \in 1..Len(elements) : elements[i].element_type \in KindSet}

KindRank(t) == CHOOSE r \in DOMAIN Kinds : Kinds[r] = t

\* the element item k was computed from
ElementOf(k) == elements[origin[k]]

\* C1 as stated: calculate creates exactly one item per input element, whatever
\* the element_type strings: as many items as elements, positions 1..n in
\* item order.
C1_OneItemPerElement ==
    AfterCalculate =>
        /\ Len(Items) = Len(elements)
        /\ \A k \in 1..Len(Items) : Items[k].position = k

\* C1 amended: calculate creates exactly one item per input element whose
\* element_type is one of wall, window, door, column, beam, slab, and none for
\* an element of any other element_type; the positions are 1..n in item order
\* without gap or repeat, and the empty list gives zero items.
C1_OneItemPerKnownElement ==
    AfterCalculate =>
        /\ Len(Items) = Cardinality(KnownElements)
        /\ Len(origin) = Len(Items)
        /\ {origin[k] : k \in 1..Len(Items)} = KnownElements
        /\ \A k \in 1..Len(Items) : Items[k].position = k
        /\ (elements = <<>> => Items = <<>>)

\* a list with an element of an unknown type and two known ones, after calculate
C1_Witness ==
    /\ AfterCalculate
    /\ Len(elements) = 3
    /\ Cardinality(KnownElements) = 2
    /\ Len(Items) = 2
    /\ Items[2].position = 2

\* C2: the items are grouped by kind in the order wall, window, door, column,
\* beam, slab whatever the input order, elements of one kind keep their input
\* order, and the positions increase strictly from 1.
C2_GroupedInKindOrder ==
    AfterCalculate =>
        /\ \A k \in 1..Len(Items) :
              /\ origin[k] \in KnownElements
              /\ Items[k].category =
                    (CASE ElementOf(k).element_type = "wall"   -> "Wände"
                       [] ElementOf(k).element_type = "window" -> "Fenster"
                       [] ElementOf(k).element_type = "door"   -> "Türen"
                       [] ElementOf(k).element_type = "column" -> "Stützen"
                       [] ElementOf(k).element_type = "beam"   -> "Unterzüge"
                       [] ElementOf(k).element_type = "slab"   -> "Decken")
        /\ \A j, k \in 1..Len(Items) :
              j < k =>
                 /\ KindRank(ElementOf(j).element_type)
                       <= KindRank(ElementOf(k).element_type)
                 /\ (ElementOf(j).element_type = ElementOf(k).element_type
                        => origin[j] < origin[k])
                 /\ Items[j].position < Items[k].position
        /\ (Items # <<>> => Items[1].position = 1)

\* the input window, wall, window comes out as wall, window, window with the
\* two windows in their input order
C2_Witness ==
    /\ AfterCalculate
    /\ Len(elements) = 3
    /\ elements[1].element_type = "window"
    /\ elements[2].element_type = "wall"
    /\ elements[3].element_type = "window"
    /\ elements[1] # elements[3]
    /\ origin = <<2, 1, 3>>
    /\ Items[1].category = "Wände"

\* the sum of the quantities of the items of one category and unit
RECURSIVE GroupTotal(_, _, _, _)
GroupTotal(items, c, u, k) ==
    IF k = 0 THEN Zero
    ELSE IF items[k].category = c /\ items[k].unit = u
         THEN RAdd(GroupTotal(items, c, u, k - 1), items[k].quantity)
         ELSE GroupTotal(items, c, u, k - 1)

\* the summary that belongs to a list of items: an entry for exactly the
\* (category, unit) pairs of the items, each the group's total rounded once
GroupedSummary(items) ==
    LET cats     == {items[k].category : k \in 1..Len(items)}
        units(c) == {items[k].unit : k \in {j \in 1..Len(items) : items[j].category = c}}
    IN  [c \in cats |->
            [u \in units(c) |-> Round(GroupTotal(items, c, u, Len(items)), 2)]]

\* C3: after calculate the summary has an entry exactly for the (category,
\* unit) pairs of the items, and each entry is the sum of the unrounded
\* quantities of that group, rounded to 2 decimals once after the summation.
C3_SummaryIsGroupedSum ==
    AfterCalculate => result.summary = GroupedSummary(Items)

\* walls of 13.75 and 6.0 m² sum to 19.75
C3_Witness ==
    /\ AfterCalculate
    /\ Len(Items) = 2
    /\ Eq(Items[1].quantity, Dec(1375, 2))
    /\ Eq(Items[2].quantity, Dec(60, 1))
    /\ DOMAIN result.summary = {"Wände"}
    /\ result.summary["Wände"]["m²"] = Dec(1975, 2)

\* C4 as stated: in every state of a QuantityResult, also after its items were
\* assigned, appended to or removed from, the summary is the grouped sum of
\* the current items.
C4_SummaryNeverStale == result.summary = GroupedSummary(Items)

OfKind(t) == {i \in 1..Len(elements) : elements[i].element_type = t}
HasItem(i) == \E k \in 1..Len(Items) : origin[k] = i
ItemOf(i) == Items[CHOOSE k \in 1..Len(Items) : origin[k] = i]

\* a dimension of element i, or the default when the element lacks it
Dim(i, key, default) ==
    IF key \in DOMAIN elements[i].dimensions THEN elements[i].dimensions[key]
    ELSE default

\* C6: every wall element has an item of category "Wände" and unit "m²" whose
\* quantity is the area length_m * configured wall height, and whose recorded
\* volume_m3 is area * thickness_m (snapshots rounded: areas to 2, volumes and
\* thicknesses to 3 decimals), with length_m 0 and thickness_m 0.24 when the
\* element lacks them.
C6_WallAreaAndVolume ==
    AfterCalculate =>
        \A i \in OfKind("wall") :
            /\ HasItem(i)
            /\ LET item      == ItemOf(i)
                   length    == Dim(i, "length_m", <<0, 1>>)
                   thickness == Dim(i, "thickness_m", <<24, 100>>)
                   area      == RMul(length, default_wall_height)
               IN  /\ item.category = "Wände"
                   /\ item.unit = "m²"
                   /\ Eq(item.quantity, area)
                   /\ item.dimensions.area_m2 = Round(area, 2)
                   /\ item.dimensions.thickness_m = Round(thickness, 3)
                   /\ item.dimensions.volume_m3 = Round(RMul(area, thickness), 3)

\* length 5.0, thickness 0.24, height 2.75: area 13.75, volume 3.30; next to
\* it a wall without thickness_m (volume 6.0 * 0.24) and a wall without
\* length_m (area 0)
C6_Witness ==
    /\ AfterCalculate
    /\ default_wall_height = <<275, 100>>
    /\ Len(Items) = 3
    /\ elements[1].dimensions = [length_m |-> <<50, 10>>, thickness_m |-> <<24, 100>>]
    /\ Eq(Items[1].quantity, <<1375, 100>>)
    /\ Items[1].dimensions.area_m2 = <<1375, 100>>
    /\ Items[1].dimensions.volume_m3 = <<3300, 1000>>
    /\ elements[2].element_type = "wall"
    /\ DOMAIN elements[2].dimensions = {"length_m"}
    /\ Eq(Items[2].quantity, <<6, 1>>)
    /\ Items[2].dimensions.volume_m3 = <<1440, 1000>>
    /\ elements[3].element_type = "wall"
    /\ DOMAIN elements[3].dimensions = {"thickness_m"}
    /\ Eq(Items[3].quantity, Zero)

\* the number n as the summary records it
Count(n) == <<100 * n, 100>>

\* C7: every window and every door has an item of quantity 1 and unit "Stück",
\* whatever its size, that records area_m2 = width_m * height_m (rounded to 2
\* decimals) with the defaults 1.0 x 1.2 for a window and 0.88 x 2.01 for a
\* door; the summary totals of "Fenster" and "Türen" are the numbers of
\* windows and doors.
C7_OpeningsAreCounted ==
    AfterCalculate =>
        /\ \A i \in OfKind("window") :
              /\ HasItem(i)
              /\ ItemOf(i).category = "Fenster"
              /\ ItemOf(i).unit = "Stück"
              /\ Eq(ItemOf(i).quantity, <<1, 1>>)
              /\ ItemOf(i).dimensions.area_m2 =
                    Round(RMul(Dim(i, "width_m", <<10, 10>>),
                               Dim(i, "height_m", <<12, 10>>)), 2)
        /\ \A i \in OfKind("door") :
              /\ HasItem(i)
              /\ ItemOf(i).category = "Türen"
              /\ ItemOf(i).unit = "Stück"
              /\ Eq(ItemOf(i).quantity, <<1, 1>>)
              /\ ItemOf(i).dimensions.area_m2 =
                    Round(RMul(Dim(i, "width_m", <<88, 100>>),
                               Dim(i, "height_m", <<201, 100>>)), 2)
        /\ (OfKind("window") # {} =>
               result.summary["Fenster"] =
                   [u \in {"Stück"} |-> Count(Cardinality(OfKind("window")))])
        /\ (OfKind("door") # {} =>
               result.summary["Türen"] =
                   [u \in {"Stück"} |-> Count(Cardinality(OfKind("door")))])

\* a window of 1.5 x 1.2 (area 1.80), a window without dimensions (1.0 x 1.2)
\* and a door of width 1.01 without a height (1.01 x 2.01)
C7_Witness ==
    /\ AfterCalculate
    /\ Len(Items) = 3
    /\ elements[1].element_type = "window"
    /\ elements[1].dimensions = [width_m |-> <<15, 10>>, height_m |-> <<12, 10>>]
    /\ Items[1].quantity = <<1, 1>>
    /\ Items[1].dimensions.area_m2 = <<180, 100>>
    /\ elements[2].element_type = "window"
    /\ elements[2].dimensions = EmptyDict
    /\ Items[2].dimensions.area_m2 = <<120, 100>>
    /\ elements[3].element_type = "door"
    /\ DOMAIN elements[3].dimensions = {"width_m"}
    /\ Items[3].dimensions.area_m2 = <<203, 100>>
    /\ result.summary["Fenster"]["Stück"] = <<200, 100>>
    /\ result.summary["Türen"]["Stück"] = <<100, 100>>

\* C8: the quantity of a column is its volume (width_m * depth_m) * configured
\* wall height in m³, width and depth 0.3 when absent; the quantity of a beam
\* is its volume (0.30 * 0.50) * length_m in m³, whatever cross-section the
\* element itself carries.
C8_ColumnAndBeamVolume ==
    AfterCalculate =>
        /\ \A i \in OfKind("column") :
              /\ HasItem(i)
              /\ ItemOf(i).category = "Stützen"
              /\ ItemOf(i).unit = "m³"
              /\ Eq(ItemOf(i).quantity,
                    RMul(RMul(Dim(i, "width_m", <<3, 10>>), Dim(i, "depth_m", <<3, 10>>)),
                         default_wall_height))
        /\ \A i \in OfKind("beam") :
              /\ HasItem(i)
              /\ ItemOf(i).category = "Unterzüge"
              /\ ItemOf(i).unit = "m³"
              /\ Eq(ItemOf(i).quantity,
                    RMul(<<15, 100>>, Dim(i, "length_m", <<1, 1>>)))
              /\ ItemOf(i).dimensions.cross_section_m2 = <<1500, 10000>>

\* a column without dimensions (0.3 * 0.3 * wall height) and a beam that
\* carries a width and a height of its own
C8_Witness ==
    /\ AfterCalculate
    /\ Len(Items) = 2
    /\ elements[1].element_type = "beam"
    /\ "width_m" \in DOMAIN elements[1].dimensions
    /\ elements[2].element_type = "column"
    /\ elements[2].dimensions = EmptyDict
    /\ Eq(Items[1].quantity, RMul(<<9, 100>>, default_wall_height))
    /\ Eq(Items[2].quantity, RMul(<<15, 100>>, elements[1].dimensions.length_m))
    /\ Items[1].unit = "m³"
    /\ Items[2].unit = "m³"

\* the sum of the areas of the slabs among the first n elements
RECURSIVE SlabAreaSum(_)
SlabAreaSum(n) ==
    IF n = 0 THEN Zero
    ELSE IF elements[n].element_type = "slab"
         THEN RAdd(SlabAreaSum(n - 1), Dim(n, "area_m2", <<0, 1>>))
         ELSE SlabAreaSum(n - 1)

\* C9: the quantity of a slab is its area area_m2 in m² (0 when absent), not
\* its volume; the volume area_m2 * configured slab thickness is recorded as
\* the dimension volume_m3 only, and the "Decken" total is the sum of the
\* areas.
C9_SlabQuantityIsArea ==
    AfterCalculate =>
        /\ \A i \in OfKind("slab") :
              /\ HasItem(i)
              /\ ItemOf(i).category = "Decken"
              /\ ItemOf(i).unit = "m²"
              /\ Eq(ItemOf(i).quantity, Dim(i, "area_m2", <<0, 1>>))
              /\ ItemOf(i).dimensions.volume_m3 =
                    Round(RMul(Dim(i, "area_m2", <<0, 1>>), default_slab_thickness), 3)
        /\ (OfKind("slab") # {} =>
               result.summary["Decken"] =
                   [u \in {"m²"} |-> Round(SlabAreaSum(Len(elements)), 2)])

\* a slab of 20.006 m² at thickness 0.20: quantity 20.006, volume 4.001, and a
\* slab without area_m2 next to it
C9_Witness ==
    /\ AfterCalculate
    /\ default_slab_thickness = <<20, 100>>
    /\ Len(Items) = 2
    /\ elements[1].element_type = "slab"
    /\ Eq(Items[1].quantity, <<20006, 1000>>)
    /\ Items[1].dimensions.volume_m3 = <<4001, 1000>>
    /\ elements[2].element_type = "slab"
    /\ elements[2].dimensions = EmptyDict
    /\ Eq(Items[2].quantity, Zero)
    /\ result.summary["Decken"]["m²"] = <<2001, 100>>

----------------------------------------------------------------------------
(* Properties of parse_scale                                               *)

Colons == {i \in DOMAIN scale : scale[i] = ":"}
NumeratorText == SubSeq(scale, 1, (CHOOSE i \in Colons : TRUE) - 1)
DenominatorText == SubSeq(scale, (CHOOSE i \in Colons : TRUE) + 1, Len(scale))

\* "N:D" with one colon, N and D numbers, D # 0
WellFormedScale ==
    /\ Cardinality(Colons) = 1
    /\ float(NumeratorText).exc = "none"
    /\ float(DenominatorText).exc = "none"
    /\ float(DenominatorText).value[1] # 0

\* C10: parse_scale, of ElementDetector and of the detectors alike, returns
\* N/D for every well-formed "N:D" with D # 0, and the default 0.01 for every
\* malformed string (no colon, several colons, a part that is no number,
\* D = 0); it never raises.
C10_ParseScale ==
    op = "parse_scale" =>
        /\ factor.exc = "none"
        /\ detector_factor = factor
        /\ IF WellFormedScale
           THEN Eq(RMul(factor.value, float(DenominatorText).value),
                   float(NumeratorText).value)
           ELSE factor.value = <<1, 100>>

\* "1:50" gives 0.02
C10_Witness ==
    /\ op = "parse_scale"
    /\ scale = <<"1", ":", "5", "0">>
    /\ Eq(factor.value, <<2, 100>>)
    /\ detector_factor.value = factor.value

\* the number a well-formed "N:D" names as N, and as D
Numerator == float(NumeratorText).value
Denominator == float(DenominatorText).value

\* C11: a scale string "N:D" with N <= 0 or D <= 0 is treated as invalid:
\* parse_scale, of ElementDetector and of the detectors, returns the default
\* 0.01 for it, so the scale factor it hands out is always strictly positive.
C11_NonPositiveScaleIsInvalid ==
    op = "parse_scale" =>
        /\ factor.value[1] > 0
        /\ detector_factor.value[1] > 0
        /\ (/\ Cardinality(Colons) = 1
            /\ float(NumeratorText).exc = "none"
            /\ float(DenominatorText).exc = "none"
            /\ (Numerator[1] <= 0 \/ Denominator[1] <= 0))
           => /\ factor.value = DefaultScale
              /\ detector_factor.value = DefaultScale

----------------------------------------------------------------------------
(* Properties of the detectors                                             *)

OfElementType(es, t) == SelectSeq(es, LAMBDA e : e.element_type = t)

\* the scale factor of the drawing
ScaleFactor == detector_parse_scale(scale).value

\* the runs the two passes have measured, horizontal ones first
MeasuredRuns ==
    SelectSeq(Found(drawing, "horizontal"), LAMBDA r : r.length >= min_length)
        \o SelectSeq(Found(drawing, "vertical"), LAMBDA r : r.length >= min_length)

\* C12: WallDetector.detect emits a wall for a measured run iff the run's
\* thickness is at least interior_wall_min_thickness (5); the wall is
\* "exterior" iff the thickness is at least exterior_wall_min_thickness (10)
\* and "interior" otherwise; length_m = max(bbox width, bbox height) * scale
\* factor, thickness_m = thickness * scale factor, confidence = 0.8.
C12_WallClassification ==
    op \in {"detect_walls", "detect_all"} =>
        LET walls == OfElementType(detected, "wall")
            thick == {i \in DOMAIN MeasuredRuns :
                         MeasuredRuns[i].thickness >= interior_wall_min_thickness}
            nth(i) == Cardinality({j \in thick : j <= i})
        IN  /\ Len(walls) = Cardinality(thick)
            /\ \A i \in thick :
                  LET r == MeasuredRuns[i]
                      e == walls[nth(i)]
                  IN  /\ e.subtype = IF r.thickness >= exterior_wall_min_thickness
                                     THEN "exterior" ELSE "interior"
                      /\ e.bbox.x = r.x /\ e.bbox.y = r.y
                      /\ Max(e.bbox.width, e.bbox.height) = Max(r.length, r.thickness)
                      /\ Eq(e.dimensions.length_m,
                            RMul(Number(Max(e.bbox.width, e.bbox.height)), ScaleFactor))
                      /\ Eq(e.dimensions.thickness_m,
                            RMul(Number(r.thickness), ScaleFactor))
                      /\ Eq(e.confidence, <<8, 10>>)

\* a run of thickness 5 became an interior wall of 0.5 m at 1:100, the run of
\* thickness 4 next to it became nothing
C12_Witness ==
    /\ op = "detect_walls"
    /\ scale = <<"1", ":", "1", "0", "0">>
    /\ drawing = <<Run("horizontal", 10, 20, 50, 5), Run("horizontal", 0, 60, 55, 4)>>
    /\ Len(detected) = 1
    /\ detected[1].subtype = "interior"
    /\ Eq(detected[1].dimensions.length_m, <<1, 2>>)
    /\ Eq(detected[1].dimensions.thickness_m, <<5, 100>>)

\* the background regions the flood fills have extracted
ExtractedRegions ==
    SelectSeq(Map(flood_fill_region, Found(drawing, "background")),
              LAMBDA region : region # None)

\* C13: every extracted background region whose width lies in
\* [min_opening_width, max_opening_width] = [20, 200] yields exactly one
\* opening from OpeningDetector.detect, a window if height < 2 * width and a
\* door otherwise, whatever its height; a region of any other width yields
\* none.
C13_OneOpeningPerRegion ==
    op \in {"detect_openings", "detect_all"} =>
        LET openings == {i \in DOMAIN detected :
                            detected[i].element_type \in {"window", "door"}}
            of(region) == {i \in openings :
                              detected[i].bbox = BoundingBox(region[1], region[2],
                                                             region[3], region[4])}
        IN  \A k \in DOMAIN ExtractedRegions :
                LET region == ExtractedRegions[k]
                    w == region[3]
                    h == region[4]
                IN  IF min_opening_width <= w /\ w <= max_opening_width
                    THEN /\ Cardinality(of(region)) = 1
                         /\ \A i \in of(region) :
                               detected[i].element_type =
                                   IF h < 2 * w THEN "window" ELSE "door"
                    ELSE of(region) = {}

\* C14: the unimplemented recognisers contribute nothing: door-swing,
\* dashed-line and hatch-pattern detection return empty lists on every image,
\* so no detector returns a door, a beam or a slab, and every element
\* detect_all returns is a wall, a window or a column.
C14_PlaceholdersAreEmpty ==
    /\ find_door_swings(drawing) = <<>>
    /\ find_dashed_lines(drawing) = <<>>
    /\ find_hatched_regions(drawing) = <<>>
    /\ detect_doors(drawing, scale) = <<>>
    /\ detect_beams(drawing, scale) = <<>>
    /\ detect_slabs(drawing, scale) = <<>>
    /\ op \in {"detect_all", "detect_walls", "detect_openings", "detect_structural"}
          => \A i \in DOMAIN detected :
                 detected[i].element_type \in {"wall", "window", "column"}

\* detect_all on an image with a window-sized gap and a column-sized blob
\* returned those two and nothing else
C14_Witness ==
    /\ op = "detect_all"
    /\ drawing = <<Component("background", 1, 1, 20, 10, 200),
                   Component("foreground", 0, 0, 9, 9, 100)>>
    /\ Len(detected) = 2
    /\ detected[1].element_type = "window"
    /\ detected[2].element_type = "column"

\* C15: StructuralDetector emits a column for an extracted foreground region
\* iff both its width and its height lie in [min_column_size, max_column_size]
\* = [10, 100], max(w, h) / min(w, h) < 3 and fill_ratio > 0.7; the column has
\* confidence 0.75 and cross_section_m2 = (w * scale) * (h * scale); no other
\* region gives a column.
C15_ColumnClassification ==
    op \in {"detect_structural", "detect_all"} =>
        LET regions == Found(drawing, "foreground")
            width(c)  == c.max_x - c.min_x + 1
            height(c) == c.max_y - c.min_y + 1
            qualifies(c) ==
                /\ width(c) \in min_column_size..max_column_size
                /\ height(c) \in min_column_size..max_column_size
                /\ Max(width(c), height(c)) < 3 * Min(width(c), height(c))
                /\ 10 * c.count > 7 * width(c) * height(c)
            columns == OfElementType(detected, "column")
            chosen  == {i \in DOMAIN regions : qualifies(regions[i])}
            nth(i)  == Cardinality({j \in chosen : j <= i})
        IN  /\ Len(columns) = Cardinality(chosen)
            /\ \A i \in chosen :
                  LET c == regions[i]
                      e == columns[nth(i)]
                  IN  /\ e.bbox = BoundingBox(c.min_x, c.min_y, width(c), height(c))
                      /\ Eq(e.confidence, <<75, 100>>)
                      /\ Eq(e.dimensions.cross_section_m2,
                            RMul(RMul(Number(width(c)), ScaleFactor),
                                 RMul(Number(height(c)), ScaleFactor)))

\* at 1:100 a 20 x 30 blob filled to 421/600 became a column of 0.06 m2 and
\* the 20 x 20 blob filled to exactly 0.7 became nothing
C15_Witness ==
    /\ op = "detect_structural"
    /\ scale = <<"1", ":", "1", "0", "0">>
    /\ drawing = <<Component("foreground", 20, 0, 39, 29, 421),
                   Component("foreground", 60, 0, 79, 19, 280)>>
    /\ Len(detected) = 1
    /\ detected[1].element_type = "column"
    /\ Eq(detected[1].dimensions.cross_section_m2, <<6, 100>>)

----------------------------------------------------------------------------
(* Properties of the binarizer                                             *)

\* pixel i of the bitmap binarize returned is foreground (black)
ForegroundOut(i) == binarized.value[i] = 0

\* C16: the binarizer marks a pixel as foreground iff its intensity is
\* strictly below the threshold, and as background otherwise, also when the
\* intensity equals the threshold; ImagePreprocessor.binarize and the
\* binarization step of the detectors classify every (intensity, threshold)
\* pair alike.
C16_ForegroundBelowThreshold ==
    op = "binarize" =>
        /\ DOMAIN binarized.value = DOMAIN image
        /\ DOMAIN binary = DOMAIN image
        /\ \A i \in DOMAIN image :
              /\ ForegroundOut(i) <=> image[i] < threshold
              /\ binary[i] = 1 <=> image[i] < detector_threshold
              /\ threshold = detector_threshold
                    => (ForegroundOut(i) <=> binary[i] = 1)

\* C17: binarize rejects a threshold outside [0, 255]: it signals an error and
\* returns no bitmap for threshold < 0 or threshold > 255, and only then.
C17_ThresholdOutOfRangeRejected ==
    op = "binarize" =>
        (binarized.exc # "none" <=> threshold \notin 0..255)

----------------------------------------------------------------------------
(* Properties of the analyzer                                              *)

\* C18: analyze surfaces input errors as distinct failures and returns no
\* AnalysisResult: a path with no file behind it raises FileNotFoundError
\* whatever its suffix, an existing file whose suffix is none of pdf, png,
\* jpg, jpeg, tiff, tif, bmp raises ValueError; in both cases no detection,
\* no OCR and no quantity calculation is carried out.
C18_InputErrors ==
    op = "analyze" =>
        /\ ~file.exists =>
              /\ analysis.exc = "FileNotFoundError"
              /\ performed = {}
        /\ (file.exists /\ lower(Suffix(file.path)) \notin ImageSuffixes \cup {".pdf"}) =>
              /\ analysis.exc = "ValueError"
              /\ performed \cap {"detect", "ocr", "calculate"} = {}

\* an existing file "notes.xyz" was rejected with ValueError after the load
\* step alone
C18_Witness ==
    /\ op = "analyze"
    /\ file.exists
    /\ file.path = "notes.xyz"
    /\ analysis.exc = "ValueError"
    /\ performed = {"load"}

\* the page images a call has analyzed
AnalyzedPages ==
    IF op = "analyze_image" THEN <<file.pages[1]>>
    ELSE load_images(file, pages_arg).value

\* text extraction fails on the page, at OCR preprocessing, at dimension
\* extraction or at label extraction
TextExtractionFails(page) ==
    ~page.ocr.preprocess \/ ~page.ocr.first_call \/ ~page.ocr.second_call

\* what a page adds when a failure empties both of its lists
IsolatedPageText(page) ==
    IF TextExtractionFails(page)
    THEN [dimensions |-> <<>>, labels |-> <<>>]
    ELSE [dimensions |-> extract_dimensions(page.regions),
          labels     |-> extract_labels(page.regions)]

\* C19: a text-extraction failure on page i (at OCR preprocessing, dimension
\* extraction or label extraction) is isolated to that page: analyze returns
\* normally, the elements of every page are in the result and in the
\* quantities, the dimensions and labels of the other pages are unaffected,
\* and page i adds an empty dimension list and an empty label list.
C19_TextFailureIsolated ==
    (op \in {"analyze", "analyze_image"} /\ "ocr" \in performed) =>
        /\ analysis.exc = "none"
        /\ analysis.value.elements =
               Extend(Map(LAMBDA page : detect_all(page.drawing, scale), AnalyzedPages))
        /\ analysis.value.quantities = calculate(analysis.value.elements)
        /\ analysis.value.dimensions =
               Extend(Map(LAMBDA page : IsolatedPageText(page).dimensions, AnalyzedPages))
        /\ analysis.value.labels =
               Extend(Map(LAMBDA page : IsolatedPageText(page).labels, AnalyzedPages))

----------------------------------------------------------------------------
(* Properties of the filters                                               *)

\* out is the subsequence of es made of exactly the elements at the indices
\* in keep, in their order in es
IsSubsequenceAt(out, es, keep) ==
    /\ Len(out) = Cardinality(keep)
    /\ \A i \in keep : out[Cardinality({j \in keep : j <= i})] = es[i]

\* C20: filter_by_type and filter_by_confidence are pure and order-preserving:
\* the result is the subsequence of the input made of exactly the elements
\* with element_type = the requested type (resp. confidence >= min_confidence,
\* the threshold included) in input order, the input list is left unchanged,
\* and the result is never longer than the input.
C20_FiltersArePure ==
    [][ /\ elements' = elements
        /\ Len(filtered') <= Len(elements)
        /\ op' = "filter_by_type" =>
              IsSubsequenceAt(filtered', elements,
                  {i \in DOMAIN elements :
                      elements[i].element_type = filter_args.element_type})
        /\ op' = "filter_by_confidence" =>
              IsSubsequenceAt(filtered', elements,
                  {i \in DOMAIN elements :
                      Geq(elements[i].confidence, filter_args.min_confidence)})
      ]_vars

\* the list of test_filter_by_confidence filtered at 0.7: the elements of
\* confidence 0.9 and 0.7 are returned in that order
C20_Witness ==
    /\ op = "filter_by_confidence"
    /\ filter_args.min_confidence = Dec(7, 1)
    /\ Len(elements) = 3
    /\ elements[1].confidence = Dec(9, 1)
    /\ elements[2].confidence = Dec(3, 1)
    /\ elements[3].confidence = Dec(7, 1)
    /\ filtered = <<elements[1], elements[3]>>

----------------------------------------------------------------------------
(* BoundingBox: the properties center and area                             *)

\* the largest side of the boxes enumerated next to the boxes of the tests
MaxSide == 4

\* the middle rounded up instead of down
BoundingBox_center_up(b) ==
    <<b.x + (b.width + 1) \div 2, b.y + (b.height + 1) \div 2>>

\* (self.x + self.width // 2, self.y + self.height // 2)
BoundingBox_center(b) == <<b.x + b.width \div 2, b.y + b.height \div 2>>

\* self.width * self.height
BoundingBox_area(b) == b.width * b.height

\* the boxes of test_center and test_area and all boxes with sides up to
\* MaxSide, at the origins of the tests
SampleBoxes ==
    {BoundingBox(x, y, w, h) : x \in {0, 10}, y \in {0, 20},
                               w \in (1..MaxSide) \cup {10, 100},
                               h \in (1..MaxSide) \cup {20, 50}}

\* bbox.center
Center ==
    /\ op \in {"init", "area"}
    /\ box_center = <<>>
    /\ box_center' = BoundingBox_center(box)
    /\ op' = "center"
    /\ UNCHANGED <<calcVars, scaleVars, imageVars, box, box_area, exportVars, pixelVars,
                   resultVars>>

\* bbox.area
Area ==
    /\ op \in {"init", "center"}
    /\ box_area = 0
    /\ box_area' = BoundingBox_area(box)
    /\ op' = "area"
    /\ UNCHANGED <<calcVars, scaleVars, imageVars, box, box_center, exportVars, pixelVars,
                   resultVars>>

InitBox ==
    /\ NoCalculation
    /\ op = "init"
    /\ scale = <<>>
    /\ factor = Returns(Zero)
    /\ detector_factor = Returns(Zero)
    /\ NoImage
    /\ box \in SampleBoxes
    /\ box_center = <<>>
    /\ box_area = 0
    /\ NothingExported
    /\ NothingScanned
    /\ NoResult

NextBox == Center \/ Area

SpecBox == InitBox /\ [][NextBox]_vars

\* C21: for every BoundingBox(x, y, w, h) with w, h >= 1, center is
\* (x + floor(w/2), y + floor(h/2)), floor(w/2) being the one k with
\* 2k <= w < 2k + 2, and area is w * h; (10, 20, 100, 50) has center (60, 45)
\* and (0, 0, 10, 20) has area 200.
C21_CenterAndArea ==
    /\ box.width >= 1 /\ box.height >= 1
    /\ box_center # <<>> =>
          LET kx == box_center[1] - box.x
              ky == box_center[2] - box.y
          IN  /\ 2 * kx <= box.width /\ box.width < 2 * kx + 2
              /\ 2 * ky <= box.height /\ box.height < 2 * ky + 2
              /\ box = BoundingBox(10, 20, 100, 50) => box_center = <<60, 45>>
    /\ box_area # 0 =>
          /\ box_area = box.width * box.height
          /\ box = BoundingBox(0, 0, 10, 20) => box_area = 200

\* both properties read on a box with an odd width and an odd height
C21_Witness ==
    /\ box_center # <<>>
    /\ box_area # 0
    /\ box.width = 3 /\ box.height = 1

----------------------------------------------------------------------------
(* Exporter.export_to_json                                                 *)
(* The written file is the export_data dictionary the code hands to        *)
(* json.dump, without meta.created_at (the clock).                         *)

\* Exporter.__init__: the defaults
project_name == "Bauzeichnung-Analyse"
created_by == "BauzeichnungAnalyzer"

\* the dictionary appended to export_data["items"] for one item
ExportedItem(item) ==
    [position |-> item.position, category |-> item.category,
     description |-> item.description, quantity |-> Round(item.quantity, 2),
     unit |-> item.unit,
     dimensions |-> [k \in DOMAIN item.dimensions |-> Round(item.dimensions[k], 4)],
     notes |-> item.notes]

ExportData(quantity_result) ==
    [meta |-> [project_name |-> project_name, created_by |-> created_by,
               total_items |-> Len(quantity_result.items)],
     items |-> [i \in DOMAIN quantity_result.items |->
                   ExportedItem(quantity_result.items[i])],
     summary |-> quantity_result.summary]

\* an export that rounds the quantities on the items themselves
export_to_json_in_place(quantity_result) ==
    [quantity_result |->
        [quantity_result EXCEPT !.items =
            [i \in DOMAIN @ |-> [@[i] EXCEPT !.quantity = Round(@, 2)]]],
     export_data |-> ExportData(quantity_result)]

\* export_to_json(quantity_result, output_path): the quantity result after the
\* call and the document written
export_to_json(quantity_result) ==
    [quantity_result |-> quantity_result,
     export_data |-> ExportData(quantity_result)]

\* exporter.export_to_json(result, path) on the result the caller holds
ExportToJson ==
    /\ \E r \in {export_to_json(result)} :
          /\ result' = r.quantity_result
          /\ document' = r.export_data
    /\ op' = "export_to_json"
    /\ UNCHANGED <<default_wall_height, default_slab_thickness, elements,
                   origin, returned, calls, edits, scaleVars, imageVars,
                   boxVars, pixelVars,
                   resultVars>>

NextExport == Calculate \/ AssignItems \/ ExportToJson

SpecExport == InitEdit /\ [][NextExport]_vars

\* C22: export_to_json leaves the items of the QuantityResult (count, order,
\* every field, the unrounded quantities) and its summary unchanged, and the
\* written document has meta.total_items = len(items) and one entry per item in
\* the same order with that item's position, category, description, unit and
\* notes.
C22_ExportIsReadOnly ==
    [][ op' = "export_to_json" =>
          /\ result' = result
          /\ document'.meta.total_items = Len(result.items)
          /\ Len(document'.items) = Len(result.items)
          /\ \A i \in DOMAIN result.items :
                /\ document'.items[i].position = result.items[i].position
                /\ document'.items[i].category = result.items[i].category
                /\ document'.items[i].description = result.items[i].description
                /\ document'.items[i].unit = result.items[i].unit
                /\ document'.items[i].notes = result.items[i].notes
      ]_vars

\* a result of two or more items, one of them with a quantity of more than two
\* decimals, has been exported
C22_Witness ==
    /\ op = "export_to_json"
    /\ Len(result.items) >= 2
    /\ document.meta.total_items = Len(result.items)
    /\ \E i \in DOMAIN result.items :
          ~Eq(result.items[i].quantity, Round(result.items[i].quantity, 2))

----------------------------------------------------------------------------
(* The scans of the detectors on the pixels of a binary image              *)
(* A bitmap is its width, its height and the set of its foreground pixels  *)
(* (x, y), binary[y, x] == 1; x runs over 0..width-1, y over 0..height-1.  *)
(* The thresholds of the detectors are constructor and method parameters;  *)
(* they are explored at their defaults and at values that bitmaps of a few *)
(* pixels reach, and so is the pixel cap of the flood fills (10000).       *)

\* the largest width, height and number of pixels of the bitmaps enumerated
MaxWidth == 4
MaxHeight == 3
MaxArea == 12

Bitmap(width, height, foreground) ==
    [width |-> width, height |-> height, foreground |-> foreground]

Pixels(b) == {<<x, y>> : x \in 0..(b.width - 1), y \in 0..(b.height - 1)}

\* binary[y, x]
Value(b, x, y) == IF <<x, y>> \in b.foreground THEN 1 ELSE 0

\* every bitmap of a shape within the three bounds
Bitmaps ==
    UNION {{Bitmap(w, h, fg) : fg \in SUBSET Pixels(Bitmap(w, h, {}))} :
              <<w, h>> \in {s \in (1..MaxWidth) \X (1..MaxHeight) :
                                s[1] * s[2] <= MaxArea}}

\* the thresholds and the cap as the code has them
DefaultThresholds ==
    [max_size |-> max_size, min_length |-> min_length,
     interior_wall_min_thickness |-> interior_wall_min_thickness,
     exterior_wall_min_thickness |-> exterior_wall_min_thickness,
     min_opening_width |-> min_opening_width,
     max_opening_width |-> max_opening_width,
     min_column_size |-> min_column_size,
     max_column_size |-> max_column_size]

\* thresholds and caps that bitmaps of MaxArea pixels reach
ReducedThresholds ==
    {[max_size |-> cap, min_length |-> 2,
      interior_wall_min_thickness |-> 2, exterior_wall_min_thickness |-> 3,
      min_opening_width |-> 2, max_opening_width |-> 4,
      min_column_size |-> 1, max_column_size |-> 3] :
        cap \in {4, 6, max_size}}

Thresholds == {DefaultThresholds} \cup ReducedThresholds

\* the state of a flood fill before its first pop
StartFill(visited, x, y) ==
    [visited |-> visited, count |-> 0,
     min_x |-> x, max_x |-> x, min_y |-> y, max_y |-> y]

\* a fill that spreads along the row only
RECURSIVE flood_fill_rows(_, _, _, _, _)
flood_fill_rows(b, value, cap, stack, fill) ==
    IF stack = <<>> \/ fill.count >= cap THEN fill
    ELSE LET c == stack[Len(stack)]
             x == c[1]
             y == c[2]
             rest == SubSeq(stack, 1, Len(stack) - 1)
         IN  IF \/ x < 0 \/ x >= b.width \/ y < 0 \/ y >= b.height
                \/ c \in fill.visited
                \/ Value(b, x, y) # value
             THEN flood_fill_rows(b, value, cap, rest, fill)
             ELSE flood_fill_rows(b, value, cap,
                      rest \o << <<x + 1, y>>, <<x - 1, y>> >>,
                      [visited |-> fill.visited \cup {c},
                       count |-> fill.count + 1,
                       min_x |-> Min(fill.min_x, x), max_x |-> Max(fill.max_x, x),
                       min_y |-> Min(fill.min_y, y), max_y |-> Max(fill.max_y, y)])

\* while stack and count < cap: pop; skip a pixel outside the image, visited
\* or not of the value filled; else mark it, count it, widen the extremes and
\* push its right, left, lower and upper neighbour
RECURSIVE flood_fill(_, _, _, _, _)
flood_fill(b, value, cap, stack, fill) ==
    IF stack = <<>> \/ fill.count >= cap THEN fill
    ELSE LET c == stack[Len(stack)]
             x == c[1]
             y == c[2]
             rest == SubSeq(stack, 1, Len(stack) - 1)
         IN  IF \/ x < 0 \/ x >= b.width \/ y < 0 \/ y >= b.height
                \/ c \in fill.visited
                \/ Value(b, x, y) # value
             THEN flood_fill(b, value, cap, rest, fill)
             ELSE flood_fill(b, value, cap,
                      rest \o << <<x + 1, y>>, <<x - 1, y>>,
                                 <<x, y + 1>>, <<x, y - 1>> >>,
                      [visited |-> fill.visited \cup {c},
                       count |-> fill.count + 1,
                       min_x |-> Min(fill.min_x, x), max_x |-> Max(fill.max_x, x),
                       min_y |-> Min(fill.min_y, y), max_y |-> Max(fill.max_y, y)])

\* the two for loops of _find_filled_rectangles from pixel number k on (row
\* by row): a fill starts at every unvisited foreground pixel, and its extent
\* is appended when count > 0 and fill_ratio > 0.5
RECURSIVE filled_rectangles_from(_, _, _, _, _)
filled_rectangles_from(b, cap, k, visited, found) ==
    IF k >= b.width * b.height THEN found
    ELSE LET x == k % b.width
             y == k \div b.width
         IN  IF Value(b, x, y) = 1 /\ <<x, y>> \notin visited
             THEN LET fill == flood_fill(b, 1, cap, << <<x, y>> >>,
                                         StartFill(visited, x, y))
                      w == fill.max_x - fill.min_x + 1
                      h == fill.max_y - fill.min_y + 1
                      fill_ratio == IF w * h > 0 THEN <<fill.count, w * h>>
                                    ELSE Zero
                  IN  filled_rectangles_from(b, cap, k + 1, fill.visited,
                          IF fill.count > 0 /\ 2 * fill_ratio[1] > fill_ratio[2]
                          THEN Append(found, <<fill.min_x, fill.min_y, w, h,
                                               fill_ratio>>)
                          ELSE found)
             ELSE filled_rectangles_from(b, cap, k + 1, visited, found)

\* StructuralDetector._find_filled_rectangles on the pixels
find_filled_rectangles_in(b, cap) == filled_rectangles_from(b, cap, 0, {}, <<>>)

\* OpeningDetector._flood_fill_region on the pixels: the region returned (or
\* None) and the visited array it leaves
flood_fill_region_in(b, visited, start_x, start_y, cap) ==
    LET fill == flood_fill(b, 0, cap, << <<start_x, start_y>> >>,
                           StartFill(visited, start_x, start_y))
    IN  [region |-> IF fill.count > 0 /\ fill.count < cap
                    THEN <<fill.min_x, fill.min_y, fill.max_x - fill.min_x + 1,
                           fill.max_y - fill.min_y + 1>>
                    ELSE None,
         visited |-> fill.visited]

\* the two for loops of _find_wall_gaps over range(1, height - 1) and
\* range(1, width - 1), from inner pixel number k on
RECURSIVE wall_gaps_from(_, _, _, _, _)
wall_gaps_from(b, c, k, visited, found) ==
    IF b.width < 3 \/ k >= (b.width - 2) * (b.height - 2) THEN found
    ELSE LET x == 1 + (k % (b.width - 2))
             y == 1 + (k \div (b.width - 2))
         IN  IF Value(b, x, y) = 0 /\ <<x, y>> \notin visited
             THEN LET filled == flood_fill_region_in(b, visited, x, y, c.max_size)
                      region == filled.region
                  IN  wall_gaps_from(b, c, k + 1, filled.visited,
                          IF /\ region # None
                             /\ c.min_opening_width <= region[3]
                             /\ region[3] <= c.max_opening_width
                             /\ c.min_opening_width \div 2 <= region[4]
                             /\ region[4] <= c.max_opening_width
                          THEN Append(found, region)
                          ELSE found)
             ELSE wall_gaps_from(b, c, k + 1, visited, found)

\* OpeningDetector._find_wall_gaps on the pixels
find_wall_gaps_in(b, c) == wall_gaps_from(b, c, 0, {}, <<>>)

\* OpeningDetector.detect on the pixels: the windows of _detect_windows; the
\* doors of _detect_doors come from _find_door_swings, which finds none
OpeningDetector_detect_in(b, s, c) ==
    LET scale_factor == detector_parse_scale(s).value
    IN  Map(LAMBDA region : Opening("window", [window_type |-> "Standard-Fenster"],
                                    region, scale_factor),
            SelectSeq(find_wall_gaps_in(b, c),
                      LAMBDA region : /\ c.min_opening_width <= region[3]
                                      /\ region[3] <= c.max_opening_width
                                      /\ region[4] < region[3] * 2))

\* structural_detector._find_filled_rectangles(binary)
FindFilledRectangles ==
    /\ op = "init"
    /\ rectangles' = find_filled_rectangles_in(bitmap, config.max_size)
    /\ op' = "find_filled_rectangles"
    /\ UNCHANGED <<calcVars, scaleVars, imageVars, boxVars, exportVars,
                   bitmap, config, gaps, found_lines, runs,
                   resultVars>>

\* opening_detector.detect(image, scale), with what its _find_wall_gaps found
DetectOpeningsIn ==
    /\ op = "init"
    /\ gaps' = find_wall_gaps_in(bitmap, config)
    /\ detected' = OpeningDetector_detect_in(bitmap, scale, config)
    /\ op' = "detect_openings"
    /\ UNCHANGED <<calcVars, scaleVars, drawing, binarizeVars, analyzeVars,
                   filterVars, boxVars, exportVars,
                   bitmap, config, rectangles, found_lines, runs,
                   resultVars>>

InitRegions ==
    /\ NoCalculation
    /\ op = "init"
    /\ scale = <<"1", ":", "1", "0", "0">>
    /\ factor = Returns(Zero)
    /\ detector_factor = Returns(Zero)
    /\ NoImage
    /\ NoBox
    /\ NothingExported
    /\ bitmap \in Bitmaps
    /\ config \in Thresholds
    /\ rectangles = <<>>
    /\ gaps = <<>>
    /\ found_lines = <<>>
    /\ runs = <<>>
    /\ NoResult

NextRegions == FindFilledRectangles \/ DetectOpeningsIn

SpecRegions == InitRegions /\ [][NextRegions]_vars

\* the 4-connected components of a set of pixels
Adjacent(p, q) ==
    \/ p[1] = q[1] /\ p[2] - q[2] \in {-1, 1}
    \/ p[2] = q[2] /\ p[1] - q[1] \in {-1, 1}

RECURSIVE Reach(_, _)
Reach(S, region) ==
    LET next == region \cup {q \in S : \E p \in region : Adjacent(p, q)}
    IN  IF next = region THEN region ELSE Reach(S, next)

ConnectedComponents(S) == {Reach(S, {p}) : p \in S}

Least(S) == CHOOSE v \in S : \A u \in S : v <= u
Greatest(S) == CHOOSE v \in S : \A u \in S : u <= v

\* the tight bounding box (x, y, width, height) of a non-empty set of pixels
TightBox(c) ==
    LET xs == {p[1] : p \in c}
        ys == {p[2] : p \in c}
    IN  <<Least(xs), Least(ys), Greatest(xs) - Least(xs) + 1,
          Greatest(ys) - Least(ys) + 1>>

\* the row-major number of the pixel of c the scan meets first
FirstVisited(b, c) == Least({p[2] * b.width + p[1] : p \in c})

\* C23: the Region Extractor returns exactly the maximal 4-connected
\* foreground regions: when no component reaches the pixel cap, the list has
\* one entry per component, in row-major order of the components' first
\* pixels, each with the tight bounding box of its component and
\* fill_ratio = pixel count / bounding-box area.
C23_RegionsAreComponents ==
    (op = "find_filled_rectangles"
        /\ Cardinality(bitmap.foreground) < config.max_size) =>
        LET components == ConnectedComponents(bitmap.foreground)
            place(c) == 1 + Cardinality({d \in components :
                               FirstVisited(bitmap, d) < FirstVisited(bitmap, c)})
        IN  /\ Len(rectangles) = Cardinality(components)
            /\ \A c \in components :
                  LET r == rectangles[place(c)]
                      tight == TightBox(c)
                  IN  /\ <<r[1], r[2], r[3], r[4]>> = tight
                      /\ Eq(r[5], <<Cardinality(c), tight[3] * tight[4]>>)

\* the rectangle r is a whole foreground component, smaller than the cap, at
\* its true size
IsWholeComponent(b, cap, value, r) ==
    \E c \in ConnectedComponents(IF value = 1 THEN b.foreground
                                 ELSE Pixels(b) \ b.foreground) :
        /\ Cardinality(c) < cap
        /\ TightBox(c) = <<r[1], r[2], r[3], r[4]>>
        /\ Len(r) = 5 => Eq(r[5], <<Cardinality(c), r[3] * r[4]>>)

\* C24: a region whose flood fill hits the pixel cap is dropped entirely:
\* every region the foreground extractor of the Structural Classifier and the
\* background extractor of the Opening Classifier report is a whole component
\* smaller than the cap at its true size (no truncated bounding box, no
\* fragment of the remaining pixels), and every foreground component smaller
\* than the cap that passes the fill filter is reported.
C24_CappedRegionsAreDropped ==
    /\ op = "find_filled_rectangles" =>
          /\ \A i \in DOMAIN rectangles :
                IsWholeComponent(bitmap, config.max_size, 1, rectangles[i])
          /\ \A c \in ConnectedComponents(bitmap.foreground) :
                (/\ Cardinality(c) < config.max_size
                 /\ 2 * Cardinality(c) > TightBox(c)[3] * TightBox(c)[4]) =>
                    \E i \in DOMAIN rectangles :
                        <<rectangles[i][1], rectangles[i][2], rectangles[i][3],
                          rectangles[i][4]>> = TightBox(c)
    /\ op = "detect_openings" =>
          \A i \in DOMAIN gaps :
              IsWholeComponent(bitmap, config.max_size, 0, gaps[i])

\* C25: on an all-background bitmap the Region Extractor returns no region;
\* on a fully foreground bitmap with fewer pixels than the cap it returns
\* exactly one region, the whole bitmap (0, 0, width, height), with
\* fill_ratio = 1.0.
C25_RegionEdgeCases ==
    op = "find_filled_rectangles" =>
        /\ bitmap.foreground = {} => rectangles = <<>>
        /\ (/\ bitmap.foreground = Pixels(bitmap)
            /\ Cardinality(Pixels(bitmap)) < config.max_size) =>
              /\ Len(rectangles) = 1
              /\ <<rectangles[1][1], rectangles[1][2], rectangles[1][3],
                   rectangles[1][4]>> = <<0, 0, bitmap.width, bitmap.height>>
              /\ Eq(rectangles[1][5], One)

\* the extractor has run on a fully foreground bitmap of several rows and
\* columns, below the cap, and on an all-background one
C25_Witness ==
    /\ op = "find_filled_rectangles"
    /\ bitmap.width >= 2 /\ bitmap.height >= 2
    /\ bitmap.foreground = Pixels(bitmap)
    /\ Cardinality(Pixels(bitmap)) < config.max_size
    /\ Len(rectangles) = 1

\* the background component of the bitmap with the bounding box given touches
\* no edge of the image: all around it lie foreground pixels
IsEnclosedGap(b, region) ==
    \E c \in ConnectedComponents(Pixels(b) \ b.foreground) :
        /\ TightBox(c) = region
        /\ \A p \in c : /\ 0 < p[1] /\ p[1] < b.width - 1
                        /\ 0 < p[2] /\ p[2] < b.height - 1

\* C28: the Opening Classifier reports a background region as an opening only
\* if the region is a gap bounded by foreground pixels; a background region
\* that is not enclosed by foreground, in particular the one region of an
\* all-background bitmap smaller than the cap, yields no window and no door.
C28_OpeningsAreEnclosedGaps ==
    op = "detect_openings" =>
        /\ \A i \in DOMAIN detected :
              IsEnclosedGap(bitmap, <<detected[i].bbox.x, detected[i].bbox.y,
                                      detected[i].bbox.width,
                                      detected[i].bbox.height>>)
        /\ (/\ bitmap.foreground = {}
            /\ Cardinality(Pixels(bitmap)) < config.max_size) => detected = <<>>

----------------------------------------------------------------------------
(* The line scanner of the WallDetector on the pixels                      *)

\* the list in ascending order
RECURSIVE sorted(_)
sorted(s) ==
    IF s = <<>> THEN <<>>
    ELSE LET rest == sorted(Tail(s))
             below == SelectSeq(rest, LAMBDA v : v <= Head(s))
             above == SelectSeq(rest, LAMBDA v : v > Head(s))
         IN  below \o <<Head(s)>> \o above

\* int(np.median(thicknesses)): the middle value, or the mean of the two
\* middle values cut to an integer
median(s) ==
    LET n == Len(s)
        o == sorted(s)
    IN  IF n % 2 = 1 THEN o[(n + 1) \div 2]
        ELSE (o[n \div 2] + o[n \div 2 + 1]) \div 2

\* while check_y < height and binary[check_y, sample_x] == 1: thickness += 1
RECURSIVE count_down(_, _, _)
count_down(b, sample_x, check_y) ==
    IF check_y < b.height /\ Value(b, sample_x, check_y) = 1
    THEN 1 + count_down(b, sample_x, check_y + 1)
    ELSE 0

\* while check_x < width and binary[sample_y, check_x] == 1: thickness += 1
RECURSIVE count_right(_, _, _)
count_right(b, check_x, sample_y) ==
    IF check_x < b.width /\ Value(b, check_x, sample_y) = 1
    THEN 1 + count_right(b, check_x + 1, sample_y)
    ELSE 0

\* the thickness at the start of the line alone
measure_line_thickness_at_start(b, x, y, orientation, length) ==
    IF orientation = "horizontal" THEN count_down(b, x, y)
    ELSE count_right(b, x, y)

\* WallDetector._measure_line_thickness
measure_line_thickness(b, x, y, orientation, length) ==
    LET sample_points == Min(10, length)
        samples == [k \in 1..sample_points |->
                       ((k - 1) * length) \div sample_points]
        thicknesses ==
            IF orientation = "horizontal"
            THEN Map(LAMBDA d : count_down(b, x + d, y),
                     SelectSeq(samples, LAMBDA d : x + d < b.width))
            ELSE Map(LAMBDA d : count_right(b, x, y + d),
                     SelectSeq(samples, LAMBDA d : y + d < b.height))
    IN  IF thicknesses # <<>> THEN median(thicknesses) ELSE 0

\* while end_x < width and binary[y, end_x] == 1: end_x += 1
RECURSIVE run_end_x(_, _, _)
run_end_x(b, end_x, y) ==
    IF end_x < b.width /\ Value(b, end_x, y) = 1
    THEN run_end_x(b, end_x + 1, y) ELSE end_x

\* while end_y < height and binary[end_y, x] == 1: end_y += 1
RECURSIVE run_end_y(_, _, _)
run_end_y(b, x, end_y) ==
    IF end_y < b.height /\ Value(b, x, end_y) = 1
    THEN run_end_y(b, x, end_y + 1) ELSE end_y

\* the loops of _detect_horizontal_lines from (x, y) on: out.lines is the list
\* returned, out.runs the runs started (ghost)
RECURSIVE horizontal_lines_from(_, _, _, _, _, _)
horizontal_lines_from(b, c, x, y, visited, out) ==
    IF y >= b.height THEN out
    ELSE IF x >= b.width THEN horizontal_lines_from(b, c, 0, y + 1, visited, out)
    ELSE IF Value(b, x, y) = 1 /\ <<x, y>> \notin visited
    THEN LET end_x == run_end_x(b, x, y)
             line_length == end_x - x
             thickness == measure_line_thickness(b, x, y, "horizontal",
                                                 line_length)
         IN  IF line_length >= c.min_length
             THEN horizontal_lines_from(b, c, end_x, y,
                      visited \cup
                          {<<vx, y + dy>> : vx \in x..(end_x - 1),
                              dy \in {d \in 0..(thickness - 1) : y + d < b.height}},
                      [lines |-> IF thickness >= c.interior_wall_min_thickness
                                 THEN Append(out.lines, <<x, y, line_length,
                                                          thickness, thickness>>)
                                 ELSE out.lines,
                       runs |-> Append(out.runs, <<x, y, line_length>>)])
             ELSE horizontal_lines_from(b, c, end_x, y, visited,
                      [out EXCEPT !.runs = Append(@, <<x, y, line_length>>)])
    ELSE horizontal_lines_from(b, c, x + 1, y, visited, out)

\* WallDetector._detect_horizontal_lines
detect_horizontal_lines_in(b, c) ==
    horizontal_lines_from(b, c, 0, 0, {}, [lines |-> <<>>, runs |-> <<>>])

\* the loops of _detect_vertical_lines from (x, y) on
RECURSIVE vertical_lines_from(_, _, _, _, _, _)
vertical_lines_from(b, c, x, y, visited, out) ==
    IF x >= b.width THEN out
    ELSE IF y >= b.height THEN vertical_lines_from(b, c, x + 1, 0, visited, out)
    ELSE IF Value(b, x, y) = 1 /\ <<x, y>> \notin visited
    THEN LET end_y == run_end_y(b, x, y)
             line_length == end_y - y
             thickness == measure_line_thickness(b, x, y, "vertical",
                                                 line_length)
         IN  IF line_length >= c.min_length
             THEN vertical_lines_from(b, c, x, end_y,
                      visited \cup
                          {<<x + dx, vy>> : vy \in y..(end_y - 1),
                              dx \in {d \in 0..(thickness - 1) : x + d < b.width}},
                      [lines |-> IF thickness >= c.interior_wall_min_thickness
                                 THEN Append(out.lines, <<x, y, thickness,
                                                          line_length, thickness>>)
                                 ELSE out.lines,
                       runs |-> Append(out.runs, <<x, y, line_length>>)])
             ELSE vertical_lines_from(b, c, x, end_y, visited,
                      [out EXCEPT !.runs = Append(@, <<x, y, line_length>>)])
    ELSE vertical_lines_from(b, c, x, y + 1, visited, out)

\* WallDetector._detect_vertical_lines
detect_vertical_lines_in(b, c) ==
    vertical_lines_from(b, c, 0, 0, {}, [lines |-> <<>>, runs |-> <<>>])

\* wall_detector._detect_horizontal_lines(binary, min_length)
DetectHorizontalLines ==
    /\ op = "init"
    /\ \E out \in {detect_horizontal_lines_in(bitmap, config)} :
          /\ found_lines' = out.lines
          /\ runs' = out.runs
    /\ op' = "horizontal"
    /\ UNCHANGED <<calcVars, scaleVars, imageVars, boxVars, exportVars,
                   bitmap, config, rectangles, gaps,
                   resultVars>>

\* wall_detector._detect_vertical_lines(binary, min_length)
DetectVerticalLines ==
    /\ op = "init"
    /\ \E out \in {detect_vertical_lines_in(bitmap, config)} :
          /\ found_lines' = out.lines
          /\ runs' = out.runs
    /\ op' = "vertical"
    /\ UNCHANGED <<calcVars, scaleVars, imageVars, boxVars, exportVars,
                   bitmap, config, rectangles, gaps,
                   resultVars>>

\* the length of the runs that are sampled at 10 points
LongRun == 12

\* a run of LongRun pixels along the first row (column) next to any second
\* row (column)
LongBitmaps ==
    {Bitmap(LongRun, 2, {<<x, 0>> : x \in 0..(LongRun - 1)}
                            \cup {<<x, 1>> : x \in below}) :
        below \in SUBSET (0..(LongRun - 1))}
    \cup
    {Bitmap(2, LongRun, {<<0, y>> : y \in 0..(LongRun - 1)}
                            \cup {<<1, y>> : y \in beside}) :
        beside \in SUBSET (0..(LongRun - 1))}

InitScan ==
    /\ NoCalculation
    /\ op = "init"
    /\ scale = <<"1", ":", "1", "0", "0">>
    /\ factor = Returns(Zero)
    /\ detector_factor = Returns(Zero)
    /\ NoImage
    /\ NoBox
    /\ NothingExported
    /\ bitmap \in Bitmaps \cup LongBitmaps
    /\ config \in {c \in Thresholds : c.max_size = max_size}
    /\ rectangles = <<>>
    /\ gaps = <<>>
    /\ found_lines = <<>>
    /\ runs = <<>>
    /\ NoResult

NextScan == DetectHorizontalLines \/ DetectVerticalLines

SpecScan == InitScan /\ [][NextScan]_vars

Overlap(r, s) ==
    /\ r[1] < s[1] + s[3] /\ s[1] < r[1] + r[3]
    /\ r[2] < s[2] + s[4] /\ s[2] < r[2] + r[4]

\* C26: no two segments returned by one pass of the Line Scanner (horizontal
\* or vertical) have overlapping bounding boxes.
C26_NoOverlapWithinPass ==
    op \in {"horizontal", "vertical"} =>
        \A i, j \in DOMAIN found_lines :
            i # j => ~Overlap(found_lines[i], found_lines[j])

\* the number of contiguous foreground pixels from (x, y) on, downwards for a
\* horizontal run and to the right for a vertical one
PerpendicularCount(b, x, y, horizontal) ==
    Greatest({k \in 0..(b.width + b.height) :
                 \A j \in 0..(k - 1) :
                     IF horizontal THEN <<x, y + j>> \in b.foreground
                     ELSE <<x + j, y>> \in b.foreground})

\* the offsets along a run of the up to 10 evenly spaced sample points
SampleOffsets(length) ==
    LET n == IF length < 10 THEN length ELSE 10
    IN  [i \in 1..n |-> ((i - 1) * length) \div n]

\* the k-th smallest value of a list
KthSmallest(s, k) ==
    CHOOSE v \in {s[i] : i \in DOMAIN s} :
        /\ Cardinality({i \in DOMAIN s : s[i] < v}) < k
        /\ k <= Cardinality({i \in DOMAIN s : s[i] <= v})

\* the median of a list is at least t (0 for the empty list)
MedianAtLeast(s, t) ==
    LET n == Len(s)
    IN  IF n = 0 THEN 0 >= t
        ELSE IF n % 2 = 1 THEN KthSmallest(s, (n + 1) \div 2) >= t
        ELSE KthSmallest(s, n \div 2) + KthSmallest(s, n \div 2 + 1) >= 2 * t

\* the perpendicular counts at the sample points of the run
SampledThicknesses(b, run, horizontal) ==
    LET offsets == SampleOffsets(run[3])
    IN  [i \in DOMAIN offsets |->
            IF horizontal
            THEN PerpendicularCount(b, run[1] + offsets[i], run[2], TRUE)
            ELSE PerpendicularCount(b, run[1], run[2] + offsets[i], FALSE)]

\* the pass has returned a segment for the run
IsReturned(run, horizontal) ==
    \E i \in DOMAIN found_lines :
        /\ found_lines[i][1] = run[1]
        /\ found_lines[i][2] = run[2]
        /\ (IF horizontal THEN found_lines[i][3] ELSE found_lines[i][4]) = run[3]

----------------------------------------------------------------------------
(* ElementDetector.detect_all on the pixels                                *)

\* the if / elif / else of WallDetector.detect with the detector's thresholds
wall_subtype_in(thickness, c) ==
    IF thickness >= c.exterior_wall_min_thickness THEN "exterior"
    ELSE IF thickness >= c.interior_wall_min_thickness THEN "interior"
    ELSE "none"

\* the DetectedElement WallDetector.detect builds for a line
WallIn(line, scale_factor, c) ==
    LET subtype == wall_subtype_in(line[5], c)
    IN  [Wall(line, scale_factor) EXCEPT
            !.subtype = subtype,
            !.properties = [wall_type   |-> IF subtype = "exterior"
                                            THEN "Außenwand" ELSE "Innenwand",
                            orientation |-> @.orientation]]

\* vertical lines boxed as (x, y, length, thickness)
WallDetector_detect_in_along(b, s, c) ==
    LET h_lines == detect_horizontal_lines_in(b, c).lines
        v_lines == Map(LAMBDA line : <<line[1], line[2], line[4], line[3],
                                       line[5]>>,
                       detect_vertical_lines_in(b, c).lines)
        scale_factor == detector_parse_scale(s).value
    IN  Map(LAMBDA line : WallIn(line, scale_factor, c),
            SelectSeq(h_lines \o v_lines,
                      LAMBDA line : wall_subtype_in(line[5], c) # "none"))

\* WallDetector.detect on the pixels
WallDetector_detect_in(b, s, c) ==
    LET h_lines == detect_horizontal_lines_in(b, c).lines
        v_lines == detect_vertical_lines_in(b, c).lines
        scale_factor == detector_parse_scale(s).value
    IN  Map(LAMBDA line : WallIn(line, scale_factor, c),
            SelectSeq(h_lines \o v_lines,
                      LAMBDA line : wall_subtype_in(line[5], c) # "none"))

\* the tests of _detect_columns on one region with the detector's sizes
is_column_in(region, c) ==
    LET w == region[3]
        h == region[4]
        fill_ratio == region[5]
    IN  /\ c.min_column_size <= w /\ w <= c.max_column_size
        /\ c.min_column_size <= h /\ h <= c.max_column_size
        /\ (IF Min(w, h) > 0 THEN Max(w, h) < 3 * Min(w, h) ELSE FALSE)
        /\ 10 * fill_ratio[1] > 7 * fill_ratio[2]

\* StructuralDetector.detect on the pixels: the columns of _detect_columns;
\* _find_dashed_lines and _find_hatched_regions find no beams and no slabs
StructuralDetector_detect_in(b, s, c) ==
    LET scale_factor == detector_parse_scale(s).value
    IN  Map(LAMBDA region : Column(region, scale_factor),
            SelectSeq(find_filled_rectangles_in(b, c.max_size),
                      LAMBDA region : is_column_in(region, c)))

\* ElementDetector.detect_all on the pixels
detect_all_in(b, s, c) ==
    WallDetector_detect_in(b, s, c) \o OpeningDetector_detect_in(b, s, c)
        \o StructuralDetector_detect_in(b, s, c)

\* detector.detect_all(image, scale) on the binarized image
DetectAllIn ==
    /\ op = "init"
    /\ detected' = detect_all_in(bitmap, scale, config)
    /\ op' = "detect_all"
    /\ UNCHANGED <<calcVars, scaleVars, drawing, binarizeVars, analyzeVars,
                   filterVars, boxVars, exportVars, pixelVars,
                   resultVars>>

SpecDetectIn == InitRegions /\ [][DetectAllIn]_vars

\* C29: every DetectedElement that detect_all returns for an image of size
\* W x H has a bounding box with width >= 1 and height >= 1 inside the image
\* (x >= 0, y >= 0, x + width <= W, y + height <= H), and every wall has
\* length_px = max(width, height) >= thickness_px.
C29_BoxesInsideImage ==
    op = "detect_all" =>
        \A i \in DOMAIN detected :
            LET e == detected[i]
            IN  /\ e.bbox.width >= 1 /\ e.bbox.height >= 1
                /\ e.bbox.x >= 0 /\ e.bbox.y >= 0
                /\ e.bbox.x + e.bbox.width <= bitmap.width
                /\ e.bbox.y + e.bbox.height <= bitmap.height
                /\ e.element_type = "wall" =>
                      /\ Eq(e.dimensions.length_px,
                            Number(Max(e.bbox.width, e.bbox.height)))
                      /\ e.dimensions.length_px[1] * e.dimensions.thickness_px[2]
                            >= e.dimensions.thickness_px[1]
                                   * e.dimensions.length_px[2]

\* one call has returned a horizontal wall, a vertical wall reaching the right
\* border, a window and a column
C29_Witness ==
    /\ op = "detect_all"
    /\ \E i \in DOMAIN detected :
          /\ detected[i].element_type = "wall"
          /\ detected[i].properties.orientation = "horizontal"
    /\ \E i \in DOMAIN detected :
          /\ detected[i].element_type = "wall"
          /\ detected[i].properties.orientation = "vertical"
          /\ detected[i].bbox.x + detected[i].bbox.width = bitmap.width
    /\ \E i \in DOMAIN detected : detected[i].element_type = "window"
    /\ \E i \in DOMAIN detected : detected[i].element_type = "column"

----------------------------------------------------------------------------
(* AnalysisResult: calculate_quantities, get_summary, export_to_*          *)
(* The result is the value of analysis; default_wall_height and            *)
(* default_slab_thickness are the fields of the analyzer's calculator.     *)

\* the most elements a result is extended to
MaxResultElems == 2

\* the most times calculate_quantities computes
MaxComputations == 1

\* the elements of test_get_summary
SummaryTestElements ==
    << DetectedElement("wall", "exterior", [length_m |-> Number(5)],
           [wall_type |-> "Außenwand"]),
       DetectedElement("window", "None",
           [width_m |-> Number(1), height_m |-> Dec(12, 1)],
           [window_type |-> "Fenster"]) >>

\* a slab a caller adds to the elements of a result
ExtraSlab ==
    DetectedElement("slab", "floor", [area_m2 |-> Dec(20006, 3)],
        [slab_type |-> "Geschossdecke"])

\* QuantityCalculator(default_wall_height, default_slab_thickness)
QuantityCalculator(wall_height, slab_thickness) ==
    [default_wall_height |-> wall_height,
     default_slab_thickness |-> slab_thickness]

\* the per-kind formulas and the loops of calculate, for a calculator that is
\* a value
calculate_wall_by(calculator, wall, position) ==
    LET dims        == wall.dimensions
        props       == wall.properties
        length_m    == Get(dims, "length_m", Zero)
        thickness_m == Get(dims, "thickness_m", Dec(24, 2))
        height_m    == calculator.default_wall_height
        area_m2     == RMul(length_m, height_m)
        volume_m3   == RMul(area_m2, thickness_m)
        wall_type   == Get(props, "wall_type", "Wand")
    IN  QuantityItem(position, "Wände", <<wall_type, wall.subtype>>, area_m2, "m²",
            [length_m |-> Round(length_m, 2), height_m |-> Round(height_m, 2),
             thickness_m |-> Round(thickness_m, 3), area_m2 |-> Round(area_m2, 2),
             volume_m3 |-> Round(volume_m3, 3)],
            <<"Länge", Round(length_m, 2), "Höhe", Round(height_m, 2)>>)

calculate_column_by(calculator, column, position) ==
    LET dims             == column.dimensions
        props            == column.properties
        width_m          == Get(dims, "width_m", Dec(3, 1))
        depth_m          == Get(dims, "depth_m", Dec(3, 1))
        height_m         == calculator.default_wall_height
        cross_section_m2 == RMul(width_m, depth_m)
        volume_m3        == RMul(cross_section_m2, height_m)
        column_type      == Get(props, "column_type", "Stütze")
    IN  QuantityItem(position, "Stützen", column_type, volume_m3, "m³",
            [width_m |-> Round(width_m, 2), depth_m |-> Round(depth_m, 2),
             height_m |-> Round(height_m, 2),
             cross_section_m2 |-> Round(cross_section_m2, 4),
             volume_m3 |-> Round(volume_m3, 3)],
            <<"Querschnitt", Round(width_m, 2), Round(depth_m, 2),
              "Höhe", Round(height_m, 2)>>)

calculate_slab_by(calculator, slab, position) ==
    LET dims        == slab.dimensions
        props       == slab.properties
        area_m2     == Get(dims, "area_m2", Zero)
        thickness_m == calculator.default_slab_thickness
        volume_m3   == RMul(area_m2, thickness_m)
        slab_type   == Get(props, "slab_type", "Decke")
    IN  QuantityItem(position, "Decken", slab_type, area_m2, "m²",
            [area_m2 |-> Round(area_m2, 2), thickness_m |-> Round(thickness_m, 3),
             volume_m3 |-> Round(volume_m3, 3)],
            <<"Fläche", Round(area_m2, 2), "Dicke",
              Round(RMul(thickness_m, <<100, 1>>), 0)>>)

calculate_item_by(calculator, kind, e, position) ==
    CASE kind = "wall"   -> calculate_wall_by(calculator, e, position)
      [] kind = "window" -> calculate_window(e, position)
      [] kind = "door"   -> calculate_door(e, position)
      [] kind = "column" -> calculate_column_by(calculator, e, position)
      [] kind = "beam"   -> calculate_beam(e, position)
      [] kind = "slab"   -> calculate_slab_by(calculator, e, position)

\* one "for x in xs" loop of calculate: st = [items, position]
RECURSIVE Loop_by(_, _, _, _, _)
Loop_by(calculator, st, es, kind, idxs) ==
    IF idxs = <<>> THEN st
    ELSE Loop_by(calculator,
                 [items    |-> Append(st.items,
                                      calculate_item_by(calculator, kind,
                                                        es[Head(idxs)],
                                                        st.position)),
                  position |-> NextPosition(st.position)],
                 es, kind, Tail(idxs))

RECURSIVE Loops_by(_, _, _, _)
Loops_by(calculator, st, es, k) ==
    IF k > Len(LoopOrder) THEN st
    ELSE Loops_by(calculator,
                  Loop_by(calculator, st, es, LoopOrder[k],
                          OfType(es, LoopOrder[k], 1)),
                  es, k + 1)

\* calculator.calculate(elements)
calculate_by(calculator, es) ==
    LET st == Loops_by(calculator,
                       [items |-> NewQuantityResult.items,
                        position |-> StartPosition], es, 1)
    IN  [items |-> st.items, summary |-> create_summary(st.items)]

\* a version that computes on every call
calculate_quantities_always(r) ==
    [r EXCEPT !.quantities =
        calculate_by(QuantityCalculator(Dec(275, 2), Dec(20, 2)), r.elements)]

\* AnalysisResult.calculate_quantities: the result after the call, whose
\* quantities the call returns
calculate_quantities(r) ==
    IF r.quantities = None
    THEN [r EXCEPT !.quantities =
             calculate_by(QuantityCalculator(Dec(275, 2), Dec(20, 2)),
                          r.elements)]
    ELSE r

\* len([e for e in self.elements if e.element_type == t])
CountOfType(es, t) == Len(SelectSeq(es, LAMBDA e : e.element_type = t))

CountOfSubtype(es, t, st) ==
    Len(SelectSeq(es, LAMBDA e : e.element_type = t /\ e.subtype = st))

\* the dictionary get_summary returns for the result and the quantities
\* calculate_quantities has handed to it
get_summary(r, quantities) ==
    [source_file |-> r.source_file,
     scale |-> r.scale,
     element_counts |->
        [walls          |-> CountOfType(r.elements, "wall"),
         exterior_walls |-> CountOfSubtype(r.elements, "wall", "exterior"),
         interior_walls |-> CountOfSubtype(r.elements, "wall", "interior"),
         windows        |-> CountOfType(r.elements, "window"),
         doors          |-> CountOfType(r.elements, "door"),
         columns        |-> CountOfType(r.elements, "column"),
         beams          |-> CountOfType(r.elements, "beam"),
         slabs          |-> CountOfType(r.elements, "slab")],
     total_elements |-> Len(r.elements),
     dimensions_found |-> Len(r.dimensions),
     labels_found |-> Len(r.labels),
     quantity_summary |-> quantities.summary]

\* AnalysisResult(source_file=..., scale=..., elements=[...]): quantities is
\* left at its default, None
Construct ==
    /\ op = "init"
    /\ \E es \in {<<>>, SummaryTestElements} :
          analysis' = Returns(AnalysisResult("test.pdf", scale, es, <<>>, <<>>,
                                             None))
    /\ op' = "construct"
    /\ UNCHANGED <<calcVars, scaleVars, detectVars, binarizeVars, file,
                   pages_arg, performed, filterVars, restVars>>

\* result.elements.append(element)
AppendElement ==
    /\ op # "init"
    /\ analysis.exc = "none"
    /\ Len(analysis.value.elements) < MaxResultElems
    /\ analysis' = [analysis EXCEPT !.value.elements = Append(@, ExtraSlab)]
    /\ op' = "append"
    /\ UNCHANGED <<calcVars, scaleVars, detectVars, binarizeVars, file,
                   pages_arg, performed, filterVars, restVars>>

\* result.elements.pop()
PopElement ==
    /\ op # "init"
    /\ analysis.exc = "none"
    /\ analysis.value.elements # <<>>
    /\ analysis' = [analysis EXCEPT
                       !.value.elements = SubSeq(@, 1, Len(@) - 1)]
    /\ op' = "pop"
    /\ UNCHANGED <<calcVars, scaleVars, detectVars, binarizeVars, file,
                   pages_arg, performed, filterVars, restVars>>

\* result.quantities = None
ClearQuantities ==
    /\ op # "init"
    /\ analysis.exc = "none"
    /\ analysis.value.quantities # None
    /\ computations < MaxComputations
    /\ analysis' = [analysis EXCEPT !.value.quantities = None]
    /\ op' = "clear"
    /\ UNCHANGED <<calcVars, scaleVars, detectVars, binarizeVars, file,
                   pages_arg, performed, filterVars, restVars>>

\* result.calculate_quantities()
CalculateQuantities ==
    /\ op # "init"
    /\ analysis.exc = "none"
    /\ analysis' = Returns(calculate_quantities(analysis.value))
    /\ computations' = IF analysis.value.quantities = None
                       THEN computations + 1 ELSE computations
    /\ quantities_returned' = analysis'.value.quantities
    /\ op' = "calculate_quantities"
    /\ UNCHANGED <<calcVars, scaleVars,
                   detectVars, binarizeVars, file, pages_arg, performed,
                   filterVars, boxVars, exportVars, pixelVars,
                   summary_returned>>

\* result.get_summary()
GetSummary ==
    /\ op # "init"
    /\ analysis.exc = "none"
    /\ analysis' = Returns(calculate_quantities(analysis.value))
    /\ computations' = IF analysis.value.quantities = None
                       THEN computations + 1 ELSE computations
    /\ quantities_returned' = analysis'.value.quantities
    /\ summary_returned' = get_summary(analysis'.value, quantities_returned')
    /\ op' = "get_summary"
    /\ UNCHANGED <<calcVars, scaleVars,
                   detectVars, binarizeVars, file, pages_arg, performed,
                   filterVars, boxVars, exportVars, pixelVars>>

\* result.export_to_excel(path), export_to_csv(path), export_to_json(path):
\* quantities_returned is what the exporter is handed
ExportTo ==
    /\ op # "init"
    /\ analysis.exc = "none"
    /\ analysis' = Returns(calculate_quantities(analysis.value))
    /\ computations' = IF analysis.value.quantities = None
                       THEN computations + 1 ELSE computations
    /\ quantities_returned' = analysis'.value.quantities
    /\ op' \in {"export_to_excel", "export_to_csv", "export_to_json"}
    /\ UNCHANGED <<calcVars, scaleVars,
                   detectVars, binarizeVars, file, pages_arg, performed,
                   filterVars, boxVars, exportVars, pixelVars,
                   summary_returned>>

\* the files whose text extraction succeeds
ReadableFiles ==
    {f \in SampleFiles :
        \A i \in DOMAIN f.pages :
            /\ f.pages[i].ocr.preprocess
            /\ f.pages[i].ocr.first_call
            /\ f.pages[i].ocr.second_call}

InitResult ==
    /\ \E c \in Configurations :
          /\ default_wall_height = c[1]
          /\ default_slab_thickness = c[2]
    /\ elements = <<>>
    /\ result = [items |-> <<>>, summary |-> EmptySummary]
    /\ origin = <<>>
    /\ returned = {}
    /\ calls = 0
    /\ edits = 0
    /\ op = "init"
    /\ NothingElse
    /\ scale = <<"1", ":", "1", "0", "0">>
    /\ factor = Returns(Zero)
    /\ detector_factor = Returns(Zero)
    /\ NothingDetected
    /\ NothingBinarized
    /\ file \in ReadableFiles
    /\ pages_arg = None
    /\ analysis = Returns(<<>>)
    /\ performed = {}
    /\ NothingFiltered

NextResult ==
    \/ Analyze
    \/ AnalyzeImage
    \/ Construct
    \/ AppendElement
    \/ PopElement
    \/ ClearQuantities
    \/ CalculateQuantities
    \/ GetSummary
    \/ ExportTo

SpecResult == InitResult /\ [][NextResult]_vars

\* the operations that go through calculate_quantities
ThroughCalculateQuantities ==
    {"calculate_quantities", "get_summary", "export_to_excel", "export_to_csv",
     "export_to_json"}

\* the items carry the wall height 2.75 and the slab thickness 0.20
AtDefaults(quantities) ==
    \A i \in DOMAIN quantities.items :
        LET item == quantities.items[i]
        IN  /\ item.category = "Wände" =>
                  Eq(item.dimensions.height_m, Dec(275, 2))
            /\ item.category = "Decken" =>
                  Eq(item.dimensions.thickness_m, Dec(20, 2))

\* C30: calculate_quantities computes at most once.  When quantities is set,
\* as it is in every result that analyze or analyze_image returns (computed
\* with the analyzer's wall height and slab thickness), every call of
\* calculate_quantities, export_to_* and get_summary hands out the stored
\* QuantityResult without a computation, whatever the elements are by then;
\* when quantities is unset the call computes it with a QuantityCalculator at
\* the defaults (2.75, 0.20) and stores it.
C30_ComputesAtMostOnce ==
    [][/\ op' \in {"analyze", "analyze_image"} /\ analysis'.exc = "none" =>
            /\ analysis'.value.quantities # None
            /\ analysis'.value.quantities = calculate(analysis'.value.elements)
            /\ analysis'.value.quantities
                  = calculate_by(QuantityCalculator(default_wall_height,
                                                    default_slab_thickness),
                                 analysis'.value.elements)
            /\ computations' = computations
       /\ op' \in ThroughCalculateQuantities /\ op # "init" =>
            /\ quantities_returned' = analysis'.value.quantities
            /\ analysis'.value.elements = analysis.value.elements
            /\ IF analysis.value.quantities # None
               THEN /\ analysis'.value.quantities = analysis.value.quantities
                    /\ computations' = computations
               ELSE /\ computations' = computations + 1
                    /\ analysis'.value.quantities
                          = calculate_by(QuantityCalculator(Dec(275, 2),
                                                            Dec(20, 2)),
                                         analysis.value.elements)
                    /\ AtDefaults(analysis'.value.quantities)
                    /\ Len(analysis'.value.quantities.items)
                          = Cardinality({i \in DOMAIN analysis.value.elements :
                                \E k \in DOMAIN LoopOrder :
                                    analysis.value.elements[i].element_type
                                        = LoopOrder[k]})
            /\ op' = "get_summary" =>
                  /\ summary_returned'.quantity_summary
                        = analysis'.value.quantities.summary
                  /\ summary_returned'.total_elements
                        = Len(analysis.value.elements)
      ]_vars

\* get_summary has handed out the quantities that analyze computed at a wall
\* height of 3.0, without a computation, after the elements were changed
C30_Witness ==
    /\ op = "get_summary"
    /\ performed # {}
    /\ computations = 0
    /\ default_wall_height = Dec(30, 1)
    /\ analysis.value.quantities # calculate(analysis.value.elements)
    /\ summary_returned.quantity_summary = analysis.value.quantities.summary

====
